---- MODULE Spec2Model ----
(***************************************************************************)
(* Model of the Own vs Rent calculator: the financial projection engine    *)
(* (src/src/utils/calculations.js), the useCalculations hook, the URL      *)
(* codec of share links and the saved scenarios of useLocalStorage.        *)
(*                                                                         *)
(* A JavaScript number is modelled as a pair <<n, d>>:                     *)
(*   d >= 1  : the finite rational n/d in lowest terms,                    *)
(*   <<1,0>> : +Infinity,  <<-1,0>> : -Infinity,  <<0,0>> : NaN.           *)
(* Arithmetic follows IEEE-754 for the special values (x/0, 0/0, Inf-Inf,  *)
(* 0*Inf, comparisons with NaN); finite arithmetic is exact, so rounding   *)
(* error, overflow to Infinity and the sign of zero are not modelled. The  *)
(* one exception is a power with an irrational value, which Math.pow       *)
(* rounds too: it is computed in fixed point (see MathPow).                *)
(***************************************************************************)
EXTENDS Integers, Sequences, FiniteSets, TLC

\* ------------------------------------------------------------------------
\* Numbers
\* ------------------------------------------------------------------------
NaN == <<0, 0>>
PosInf == <<1, 0>>
NegInf == <<-1, 0>>

Abs(i) == IF i < 0 THEN -i ELSE i
Sign(i) == IF i > 0 THEN 1 ELSE IF i < 0 THEN -1 ELSE 0

RECURSIVE GCD(_, _)
GCD(a, b) == IF b = 0 THEN a ELSE GCD(b, a % b)

\* n/d brought to the representation above (d may be 0 or negative).
Norm(n, d) ==
  IF d = 0 THEN <<Sign(n), 0>>
  ELSE LET g == GCD(Abs(n), Abs(d))
           s == IF d < 0 THEN -1 ELSE 1
       IN  <<s * (n \div g), s * (d \div g)>>

Q(n, d) == Norm(n, d)
Num(i) == <<i, 1>>
Zero == <<0, 1>>
One == <<1, 1>>

IsNaN(x) == x = NaN
IsFinite(x) == x[2] # 0
IsInteger(x) == x[2] = 1

Neg(x) == <<-x[1], x[2]>>

\* x + y
Add(x, y) ==
  IF IsNaN(x) \/ IsNaN(y) THEN NaN
  ELSE IF ~IsFinite(x) THEN (IF ~IsFinite(y) /\ y # x THEN NaN ELSE x)
  ELSE IF ~IsFinite(y) THEN y
  ELSE LET g == GCD(x[2], y[2])
           a == x[2] \div g
           b == y[2] \div g
       IN  Norm(x[1] * b + y[1] * a, a * y[2])

\* x - y
Sub(x, y) == Add(x, Neg(y))

\* x * y (0 * Infinity = NaN falls out of the representation)
Mul(x, y) ==
  IF x[2] = 0 \/ y[2] = 0 THEN <<Sign(x[1]) * Sign(y[1]), 0>>
  ELSE LET g1 == GCD(Abs(x[1]), y[2])
           g2 == GCD(Abs(y[1]), x[2])
       IN  Norm((x[1] \div g1) * (y[1] \div g2), (x[2] \div g2) * (y[2] \div g1))

\* 1 / y  (1/0 = Infinity, 1/Infinity = 0)
Recip(y) ==
  IF IsNaN(y) THEN NaN
  ELSE IF y[2] = 0 THEN Zero
  ELSE IF y[1] = 0 THEN PosInf
  ELSE IF y[1] > 0 THEN <<y[2], y[1]>>
  ELSE <<-y[2], -y[1]>>

\* x / y
Div(x, y) ==
  IF y[2] # 0 /\ y[1] = 0
  THEN (IF IsNaN(x) \/ (x[2] # 0 /\ x[1] = 0) THEN NaN ELSE <<Sign(x[1]), 0>>)
  ELSE Mul(x, Recip(y))

\* x < y, x <= y, x > y, x >= y; every comparison with NaN is false
Lt(x, y) ==
  /\ ~IsNaN(x)
  /\ ~IsNaN(y)
  /\ IF ~IsFinite(x) THEN x = NegInf /\ y # NegInf
     ELSE IF ~IsFinite(y) THEN y = PosInf
     ELSE Sub(x, y)[1] < 0

Le(x, y) == ~IsNaN(x) /\ ~IsNaN(y) /\ (x = y \/ Lt(x, y))
Gt(x, y) == Lt(y, x)
Ge(x, y) == Le(y, x)

\* the ToBoolean of a number: false for 0 and NaN
Truthy(x) == ~IsNaN(x) /\ x # Zero

\* a || b on numbers
OrElse(a, b) == IF Truthy(a) THEN a ELSE b

\* Math.max(a, b): NaN if either argument is NaN
MathMax(a, b) == IF IsNaN(a) \/ IsNaN(b) THEN NaN ELSE IF Lt(a, b) THEN b ELSE a

\* Math.min(a, b)
MathMin(a, b) == IF IsNaN(a) \/ IsNaN(b) THEN NaN ELSE IF Lt(b, a) THEN b ELSE a

\* r^q for naturals, or cap + 1 as soon as the power exceeds cap
RECURSIVE PowCap(_, _, _)
PowCap(r, q, cap) ==
  IF q = 0 THEN 1
  ELSE LET t == PowCap(r, q - 1, cap)
       IN  IF r = 0 THEN 0
           ELSE IF t > cap \div r THEN cap + 1
           ELSE t * r

\* the natural r with r^q = n, or -1 when n is no perfect q-th power
RECURSIVE RootFrom(_, _, _)
RootFrom(r, n, q) ==
  LET t == PowCap(r, q, n)
  IN  IF t = n THEN r ELSE IF t > n THEN -1 ELSE RootFrom(r + 1, n, q)

\* x^k for a natural k, by repeated squaring
RECURSIVE IntPow(_, _)
IntPow(x, k) ==
  IF k = 0 THEN One
  ELSE LET h == IntPow(x, k \div 2)
           sq == Mul(h, h)
       IN  IF k % 2 = 0 THEN sq ELSE Mul(sq, x)

\* A power the rational representation cannot hold (an irrational root) has
\* no value here: the CHOOSE below fails, and the arguments this module
\* enumerates keep every root exact.
ExactRoot(x, q) ==
  IF q = 1 THEN x
  ELSE LET rn == RootFrom(0, x[1], q)
           rd == RootFrom(0, x[2], q)
       IN  CHOOSE r \in {y \in {<<rn, rd>>} : rn >= 0 /\ rd >= 1} : TRUE

\* b has an exact rational q-th root
HasExactRoot(b, q) ==
  q = 1 \/ (RootFrom(0, b[1], q) >= 0 /\ RootFrom(0, b[2], q) >= 1)

\* An irrational power has no exact value in JavaScript either: Math.pow
\* returns a nearby double. Here it is a fixed-point number of PowScale steps
\* to the unit, for a base and a power below 2 (what annual rates of a few
\* percent over a year or so give): FixRoot is the largest fixed-point r with
\* r^q <= b, and the power is r^p, every product truncated.
PowScale == 16384
FixMul(a, b) == (a * b) \div PowScale
FixSquare(h) == IF h >= 2 * PowScale THEN 2 * PowScale - 1
                ELSE IF FixMul(h, h) >= 2 * PowScale THEN 2 * PowScale - 1
                ELSE FixMul(h, h)

\* a product kept below 2
FixCap(t) == IF t >= 2 * PowScale THEN 2 * PowScale - 1 ELSE t

\* a^k in fixed point, by repeated squaring
RECURSIVE FixPow(_, _)
FixPow(a, k) ==
  IF k = 0 THEN PowScale
  ELSE IF k % 2 = 0 THEN FixSquare(FixPow(a, k \div 2))
  ELSE FixCap(FixMul(FixSquare(FixPow(a, k \div 2)), a))

RECURSIVE FixRoot(_, _, _, _)
FixRoot(lo, hi, b, q) ==
  IF lo >= hi THEN lo
  ELSE LET mid == (lo + hi + 1) \div 2
       IN  IF FixPow(mid, q) <= b THEN FixRoot(mid, hi, b, q)
           ELSE FixRoot(lo, mid - 1, b, q)

\* b^(p/q) to 1/PowScale, for 0 < b < 2 and p, q >= 1
RoundedPow(b, p, q) ==
  Norm(FixPow(FixRoot(0, 2 * PowScale - 1, (b[1] * PowScale) \div b[2], q), p),
       PowScale)

\* the powers RoundedPow is taken of
SmallPower(b, e) == b[1] > 0 /\ b[1] < 2 * b[2] /\ b[1] < 100000 /\ Abs(e[1]) < 24

\* Math.pow(b, e)
MathPow(b, e) ==
  IF IsNaN(e) THEN NaN
  ELSE IF e = Zero THEN One
  ELSE IF IsNaN(b) THEN NaN
  ELSE IF ~IsFinite(e)
    THEN LET m == IF IsFinite(b) THEN Q(Abs(b[1]), b[2]) ELSE PosInf
         IN  IF m = One THEN NaN
             ELSE IF Gt(m, One) = (e = PosInf) THEN PosInf ELSE Zero
  ELSE IF ~IsFinite(b)
    THEN IF e[1] < 0 THEN Zero
         ELSE IF b = NegInf /\ IsInteger(e) /\ e[1] % 2 = 1 THEN NegInf
         ELSE PosInf
  ELSE IF b = Zero THEN (IF e[1] > 0 THEN Zero ELSE PosInf)
  ELSE IF b[1] < 0 /\ ~IsInteger(e) THEN NaN
  ELSE LET r == ExactRoot(b, e[2])
           p == IF ~HasExactRoot(b, e[2]) /\ SmallPower(b, e)
                  THEN RoundedPow(b, Abs(e[1]), e[2])
                  ELSE IntPow(r, Abs(e[1]))
       IN  IF e[1] < 0 THEN Recip(p) ELSE p

\* ------------------------------------------------------------------------
\* JavaScript values as callers can pass them: a number, undefined (an
\* absent field), null, or a string (a sequence of characters).
\* ------------------------------------------------------------------------
JsNum(x) == [t |-> "number", num |-> x, str |-> <<>>]
JsUndefined == [t |-> "undefined", num |-> NaN, str |-> <<>>]
JsNull == [t |-> "null", num |-> NaN, str |-> <<>>]
JsStr(s) == [t |-> "string", num |-> NaN, str |-> s]

DigitValue(c) ==
  CASE c = "0" -> 0 [] c = "1" -> 1 [] c = "2" -> 2 [] c = "3" -> 3
    [] c = "4" -> 4 [] c = "5" -> 5 [] c = "6" -> 6 [] c = "7" -> 7
    [] c = "8" -> 8 [] c = "9" -> 9 [] OTHER -> -1

\* the value of a string of decimal digits, -1 if some character is no digit
RECURSIVE DigitsValue(_)
DigitsValue(s) ==
  IF s = <<>> THEN 0
  ELSE LET h == DigitsValue(SubSeq(s, 1, Len(s) - 1))
           l == DigitValue(s[Len(s)])
       IN  IF h < 0 \/ l < 0 THEN -1 ELSE 10 * h + l

\* the position of the first c in s from position i on, 0 if there is none
RECURSIVE CharAt(_, _, _)
CharAt(s, c, i) ==
  IF i > Len(s) THEN 0 ELSE IF s[i] = c THEN i ELSE CharAt(s, c, i + 1)

RECURSIVE TenTo(_)
TenTo(k) == IF k = 0 THEN 1 ELSE 10 * TenTo(k - 1)

\* the value of an unsigned decimal literal: digits, with an optional "."
\* and digits behind it ("5.", ".5" and "5.25" are numbers, "." is none);
\* the literal Infinity; NaN for anything else (exponents and hexadecimal
\* literals are not among the strings of this module)
UnsignedValue(body) ==
  LET dot == CharAt(body, ".", 1)
      whole == IF dot = 0 THEN body ELSE SubSeq(body, 1, dot - 1)
      fraction == IF dot = 0 THEN <<>> ELSE SubSeq(body, dot + 1, Len(body))
  IN  IF body = <<"I", "n", "f", "i", "n", "i", "t", "y">> THEN PosInf
      ELSE IF whole = <<>> /\ fraction = <<>> THEN NaN
      ELSE IF DigitsValue(whole) < 0 \/ DigitsValue(fraction) < 0 THEN NaN
      ELSE Add(Num(DigitsValue(whole)), Q(DigitsValue(fraction), TenTo(Len(fraction))))

\* Number(string) for the strings given as parameters: "" is 0, an optional
\* sign followed by decimal digits is that integer, anything else is NaN
StringToNumber(s) ==
  IF s = <<>> THEN Zero
  ELSE LET neg == s[1] = "-"
           body == IF neg THEN Tail(s) ELSE s
           v == DigitsValue(body)
       IN  IF body = <<>> \/ v < 0 THEN NaN ELSE (IF neg THEN Num(-v) ELSE Num(v))

\* Number(string) for the strings of a query: "" is 0, an optional "-"
\* followed by a decimal literal is that number, anything else is NaN
DecimalToNumber(s) ==
  IF s = <<>> THEN Zero
  ELSE IF s[1] = "-" THEN Neg(UnsignedValue(Tail(s)))
  ELSE UnsignedValue(s)

\* parseFloat(string): the number the longest numeric prefix of the string
\* denotes, NaN if there is none. On the strings that pass the isNaN test of
\* parseURLParams the prefix is the whole string, but for "", which Number
\* reads as 0 and parseFloat as NaN.
ParseFloat(s) == IF s = <<>> THEN NaN ELSE DecimalToNumber(s)

\* the decimal digits of a natural number
RECURSIVE DigitsOf(_)
DigitsOf(n) ==
  IF n < 10
    THEN <<CASE n = 0 -> "0" [] n = 1 -> "1" [] n = 2 -> "2" [] n = 3 -> "3"
             [] n = 4 -> "4" [] n = 5 -> "5" [] n = 6 -> "6" [] n = 7 -> "7"
             [] n = 8 -> "8" [] n = 9 -> "9">>
    ELSE DigitsOf(n \div 10) \o DigitsOf(n % 10)

\* the digits behind the decimal point of n/d (n < d), at most k of them
RECURSIVE FractionDigits(_, _, _)
FractionDigits(n, d, k) ==
  IF n = 0 \/ k = 0 THEN <<>>
  ELSE DigitsOf((10 * n) \div d) \o FractionDigits((10 * n) % d, d, k - 1)

\* Number.prototype.toString(): the decimal literal of the number, of at most
\* 17 significant digits (the magnitudes written with an exponent, 1e21 and
\* beyond or below 1e-6, are not among the numbers of this module)
NumberToString(x) ==
  IF IsNaN(x) THEN <<"N", "a", "N">>
  ELSE IF ~IsFinite(x)
    THEN (IF x = NegInf THEN <<"-">> ELSE <<>>) \o <<"I", "n", "f", "i", "n", "i", "t", "y">>
  ELSE LET n == Abs(x[1])
           fraction == FractionDigits(n % x[2], x[2], 17)
       IN  (IF x[1] < 0 THEN <<"-">> ELSE <<>>)
           \o DigitsOf(n \div x[2])
           \o (IF fraction = <<>> THEN <<>> ELSE <<".">> \o fraction)

\* Number(v)
ToNumber(v) ==
  CASE v.t = "number" -> v.num
    [] v.t = "undefined" -> NaN
    [] v.t = "null" -> Zero
    [] v.t = "string" -> StringToNumber(v.str)

\* the truthiness of v, as !v and || test it
ToBoolean(v) ==
  CASE v.t = "number" -> Truthy(v.num)
    [] v.t = "undefined" -> FALSE
    [] v.t = "null" -> FALSE
    [] v.t = "string" -> v.str # <<>>


\* arr[i] of a JavaScript array held as a sequence (index 0 is the first
\* element); undefined outside the array
ElementAt(arr, i) == IF i + 1 \in 1..Len(arr) THEN arr[i + 1] ELSE JsUndefined

\* an array built entry by entry, held as a sequence
ArrayOf(f) == f \o <<>>

\* the array of numbers as an array of JavaScript values
AsValues(series) == ArrayOf([i \in 1..Len(series) |-> JsNum(series[i])])

\* ------------------------------------------------------------------------
\* calculations.js
\* ------------------------------------------------------------------------
Twelve == Num(12)
Hundred == Num(100)

calculateMonthlyPayment(principal, annualRate, termYears) ==
  LET P == ToNumber(principal)
      R == ToNumber(annualRate)
      T == ToNumber(termYears)
      monthlyRate == Div(Div(R, Twelve), Hundred)
      numPayments == Mul(T, Twelve)
      growth == MathPow(Add(One, monthlyRate), numPayments)
  IN  IF ~ToBoolean(principal) \/ Le(P, Zero) THEN Zero
      ELSE IF ~ToBoolean(termYears) \/ Le(T, Zero) THEN Zero
      ELSE IF ~ToBoolean(annualRate) \/ Lt(R, Zero) THEN Div(P, Mul(T, Twelve))
      ELSE IF annualRate.t = "number" /\ R = Zero THEN Div(P, Mul(T, Twelve))
      ELSE Div(Mul(P, Mul(monthlyRate, growth)), Sub(growth, One))

\* calculateRemainingBalance returning the principal repaid so far instead of
\* the principal still owed
calculateRemainingBalance_Repaid(principal, annualRate, termYears, monthsPaid) ==
  LET P == ToNumber(principal)
      R == ToNumber(annualRate)
      T == ToNumber(termYears)
      M == ToNumber(monthsPaid)
      monthlyRate == Div(Div(R, Twelve), Hundred)
      numPayments == Mul(T, Twelve)
      growth == MathPow(Add(One, monthlyRate), numPayments)
  IN  IF ~ToBoolean(principal) \/ Le(P, Zero) THEN JsNum(Zero)
      ELSE IF ~ToBoolean(termYears) \/ Le(T, Zero) THEN JsNum(Zero)
      ELSE IF Lt(M, Zero) THEN principal
      ELSE IF Ge(M, Mul(T, Twelve)) THEN JsNum(Zero)
      ELSE IF annualRate.t = "number" /\ R = Zero
        THEN JsNum(MathMax(Zero, Mul(Div(P, Mul(T, Twelve)), M)))
      ELSE JsNum(Div(Mul(P, Sub(MathPow(Add(One, monthlyRate), M), One)),
                     Sub(growth, One)))

\* returns a JavaScript value: the branch for monthsPaid < 0 hands back its
\* argument as it came
calculateRemainingBalance(principal, annualRate, termYears, monthsPaid) ==
  LET P == ToNumber(principal)
      R == ToNumber(annualRate)
      T == ToNumber(termYears)
      M == ToNumber(monthsPaid)
      monthlyRate == Div(Div(R, Twelve), Hundred)
      numPayments == Mul(T, Twelve)
      growth == MathPow(Add(One, monthlyRate), numPayments)
  IN  IF ~ToBoolean(principal) \/ Le(P, Zero) THEN JsNum(Zero)
      ELSE IF ~ToBoolean(termYears) \/ Le(T, Zero) THEN JsNum(Zero)
      ELSE IF Lt(M, Zero) THEN principal
      ELSE IF Ge(M, Mul(T, Twelve)) THEN JsNum(Zero)
      ELSE IF annualRate.t = "number" /\ R = Zero
        THEN JsNum(MathMax(Zero, Sub(P, Mul(Div(P, Mul(T, Twelve)), M))))
      ELSE JsNum(Div(Mul(P, Sub(growth, MathPow(Add(One, monthlyRate), M))),
                     Sub(growth, One)))

\* The loops of this file run month by month. A loop that carries a value from
\* one month to the next is unfolded here over a range of months lo..hi split
\* in halves (the months still in increasing order, each starting from the
\* value the month before it left), which keeps the depth of the evaluation
\* logarithmic in the number of months.

\* the last month for which month <= months holds, counting up from 0
LastMonth(months) ==
  IF IsFinite(months) /\ months[1] >= 0 THEN months[1] \div months[2] ELSE -1

\* the loop of calculateInvestmentGrowth applying the month's growth before
\* the contribution is added
RECURSIVE InvestmentGrowthLoop_GrowthFirst(_, _, _, _, _)
InvestmentGrowthLoop_GrowthFirst(lo, hi, balance, contribution, monthlyRate) ==
  IF lo > hi THEN <<>>
  ELSE IF lo = hi THEN <<Add(Mul(balance, Add(One, monthlyRate)), contribution)>>
  ELSE LET mid == (lo + hi) \div 2
           first == InvestmentGrowthLoop_GrowthFirst(lo, mid, balance, contribution, monthlyRate)
       IN  first \o InvestmentGrowthLoop_GrowthFirst(mid + 1, hi, first[Len(first)],
                                                     contribution, monthlyRate)

\* the balances pushed by the loop of calculateInvestmentGrowth for the
\* months lo..hi, balance being the balance before month lo
RECURSIVE InvestmentGrowthLoop(_, _, _, _, _)
InvestmentGrowthLoop(lo, hi, balance, contribution, monthlyRate) ==
  IF lo > hi THEN <<>>
  ELSE IF lo = hi THEN <<Mul(Add(balance, contribution), Add(One, monthlyRate))>>
  ELSE LET mid == (lo + hi) \div 2
           first == InvestmentGrowthLoop(lo, mid, balance, contribution, monthlyRate)
       IN  first \o InvestmentGrowthLoop(mid + 1, hi, first[Len(first)],
                                         contribution, monthlyRate)

\* calculateInvestmentGrowth taking 1200% a year for a missing or zero annual
\* rate
calculateInvestmentGrowth_DefaultRate(principal, monthlyContribution, annualRate, months) ==
  LET safePrincipal == OrElse(ToNumber(principal), Zero)
      safeMonthlyContribution == OrElse(ToNumber(monthlyContribution), Zero)
      safeAnnualRate == OrElse(ToNumber(annualRate), Num(1200))
      safeMonths == OrElse(ToNumber(months), Zero)
      monthlyRate == Div(Div(safeAnnualRate, Twelve), Hundred)
  IN  IF Le(safeMonths, Zero) THEN <<safePrincipal>>
      ELSE <<safePrincipal>> \o
           InvestmentGrowthLoop(1, LastMonth(safeMonths), safePrincipal,
                                safeMonthlyContribution, monthlyRate)

calculateInvestmentGrowth(principal, monthlyContribution, annualRate, months) ==
  LET safePrincipal == OrElse(ToNumber(principal), Zero)
      safeMonthlyContribution == OrElse(ToNumber(monthlyContribution), Zero)
      safeAnnualRate == OrElse(ToNumber(annualRate), Zero)
      safeMonths == OrElse(ToNumber(months), Zero)
      monthlyRate == Div(Div(safeAnnualRate, Twelve), Hundred)
  IN  IF Le(safeMonths, Zero) THEN <<safePrincipal>>
      ELSE <<safePrincipal>> \o
           InvestmentGrowthLoop(1, LastMonth(safeMonths), safePrincipal,
                                safeMonthlyContribution, monthlyRate)

\* the loop of calculateInvestmentGrowthWithVariableContributions reading
\* monthlyContributions[month] for the month's contribution
RECURSIVE VariableGrowthLoop_NextMonth(_, _, _, _, _)
VariableGrowthLoop_NextMonth(lo, hi, balance, monthlyContributions, monthlyRate) ==
  IF lo > hi THEN <<>>
  ELSE IF lo = hi
    THEN LET monthlyContribution ==
               OrElse(ToNumber(ElementAt(monthlyContributions, lo)), Zero)
         IN  <<Mul(Add(balance, monthlyContribution), Add(One, monthlyRate))>>
  ELSE LET mid == (lo + hi) \div 2
           first == VariableGrowthLoop_NextMonth(lo, mid, balance, monthlyContributions, monthlyRate)
       IN  first \o VariableGrowthLoop_NextMonth(mid + 1, hi, first[Len(first)],
                                                 monthlyContributions, monthlyRate)

\* the balances pushed by the loop of
\* calculateInvestmentGrowthWithVariableContributions for the months lo..hi
RECURSIVE VariableGrowthLoop(_, _, _, _, _)
VariableGrowthLoop(lo, hi, balance, monthlyContributions, monthlyRate) ==
  IF lo > hi THEN <<>>
  ELSE IF lo = hi
    THEN LET monthlyContribution ==
               OrElse(ToNumber(ElementAt(monthlyContributions, lo - 1)), Zero)
         IN  <<Mul(Add(balance, monthlyContribution), Add(One, monthlyRate))>>
  ELSE LET mid == (lo + hi) \div 2
           first == VariableGrowthLoop(lo, mid, balance, monthlyContributions, monthlyRate)
       IN  first \o VariableGrowthLoop(mid + 1, hi, first[Len(first)],
                                       monthlyContributions, monthlyRate)

\* calculateInvestmentGrowthWithVariableContributions applying the annual rate
\* every month (no division by 12)
calculateInvestmentGrowthWithVariableContributions_AnnualRate(principal, monthlyContributions, annualRate, months) ==
  LET safePrincipal == OrElse(ToNumber(principal), Zero)
      safeAnnualRate == OrElse(ToNumber(annualRate), Zero)
      safeMonths == OrElse(ToNumber(months), Zero)
      monthlyRate == Div(safeAnnualRate, Hundred)
  IN  IF Le(safeMonths, Zero) THEN <<safePrincipal>>
      ELSE <<safePrincipal>> \o
           VariableGrowthLoop(1, LastMonth(safeMonths), safePrincipal,
                              monthlyContributions, monthlyRate)

calculateInvestmentGrowthWithVariableContributions(principal, monthlyContributions, annualRate, months) ==
  LET safePrincipal == OrElse(ToNumber(principal), Zero)
      safeAnnualRate == OrElse(ToNumber(annualRate), Zero)
      safeMonths == OrElse(ToNumber(months), Zero)
      monthlyRate == Div(Div(safeAnnualRate, Twelve), Hundred)
  IN  IF Le(safeMonths, Zero) THEN <<safePrincipal>>
      ELSE <<safePrincipal>> \o
           VariableGrowthLoop(1, LastMonth(safeMonths), safePrincipal,
                              monthlyContributions, monthlyRate)

\* the body of the loop of calculateHomeEquity: the equity pushed for a month
HomeEquityAt(month, initialPrice, appreciationRate, principal, mortgageRate, termYears) ==
  LET years == Div(Num(month), Twelve)
      currentValue ==
        Mul(ToNumber(initialPrice),
            MathPow(Add(One, Div(ToNumber(appreciationRate), Hundred)), years))
      remainingBalance ==
        calculateRemainingBalance(principal, mortgageRate, termYears, JsNum(Num(month)))
  IN  MathMax(Zero, Sub(currentValue, ToNumber(remainingBalance)))

\* one entry per month 0..months; the downPayment parameter is never read
calculateHomeEquity(initialPrice, appreciationRate, downPayment, principal, mortgageRate, termYears, months) ==
  ArrayOf([i \in 1..(LastMonth(ToNumber(months)) + 1) |->
             HomeEquityAt(i - 1, initialPrice, appreciationRate, principal,
                          mortgageRate, termYears)])

calculateMonthlyHousingCost(monthlyPayment, propertyTaxes, homeInsurance, maintenanceCost, hoaFees) ==
  LET monthlyTaxes == Div(propertyTaxes, Twelve)
      monthlyInsurance == Div(homeInsurance, Twelve)
      monthlyMaintenance == Div(maintenanceCost, Twelve)
  IN  Add(Add(Add(Add(monthlyPayment, monthlyTaxes), monthlyInsurance),
              monthlyMaintenance), hoaFees)

\* the body of the loop of calculateRentalCosts: the rent pushed for a month
RentAt(month, initialRent, rentIncreaseRate) ==
  LET years == Div(Num(month), Twelve)
  IN  Mul(ToNumber(initialRent),
          MathPow(Add(One, Div(ToNumber(rentIncreaseRate), Hundred)), years))

\* one entry per month 0..months
calculateRentalCosts(initialRent, rentIncreaseRate, months) ==
  ArrayOf([i \in 1..(LastMonth(ToNumber(months)) + 1) |->
             RentAt(i - 1, initialRent, rentIncreaseRate)])

\* series[i] of an array of numbers, read as a number (undefined reads as NaN)
NumAt(series, i) == IF i + 1 \in 1..Len(series) THEN series[i + 1] ELSE NaN

\* Array(n).fill(v); Array(n) throws a RangeError unless n is a whole number
\* from 0 to 2^32 - 1 (the upper limit lies beyond the months of the model)
ValidArrayLength(n) == IsFinite(n) /\ IsInteger(n) /\ n[1] >= 0
ArrayFill(n, v) == [i \in 1..n[1] |-> v] \o <<>>

Fields ==
  {"homePrice", "downPayment", "mortgageRate", "loanTerm", "propertyTaxRate",
   "homeInsurance", "maintenanceCost", "hoaFees", "homeAppreciationRate",
   "rentalIncome", "monthlyRent", "rentIncreaseRate", "investmentStartBalance",
   "monthlyBudget", "investmentReturn", "timeHorizon"}

\* a destructuring default applies to an absent (undefined) field only
Defaulted(v, dflt) == IF v.t = "undefined" THEN JsNum(dflt) ELSE v

\* the safeParams object of calculateScenario
SafeParams(params) ==
  [homePrice |-> OrElse(ToNumber(Defaulted(params.homePrice, Zero)), Zero),
   downPayment |-> OrElse(ToNumber(Defaulted(params.downPayment, Zero)), Zero),
   mortgageRate |-> OrElse(ToNumber(Defaulted(params.mortgageRate, Zero)), Zero),
   loanTerm |-> OrElse(ToNumber(Defaulted(params.loanTerm, Num(30))), Num(30)),
   propertyTaxRate |-> OrElse(ToNumber(Defaulted(params.propertyTaxRate, Zero)), Zero),
   homeInsurance |-> OrElse(ToNumber(Defaulted(params.homeInsurance, Zero)), Zero),
   maintenanceCost |-> OrElse(ToNumber(Defaulted(params.maintenanceCost, Zero)), Zero),
   hoaFees |-> OrElse(ToNumber(Defaulted(params.hoaFees, Zero)), Zero),
   homeAppreciationRate |-> OrElse(ToNumber(params.homeAppreciationRate), Num(3)),
   rentalIncome |-> OrElse(ToNumber(params.rentalIncome), Zero),
   monthlyRent |-> OrElse(ToNumber(Defaulted(params.monthlyRent, Zero)), Zero),
   rentIncreaseRate |-> OrElse(ToNumber(Defaulted(params.rentIncreaseRate, Zero)), Zero),
   investmentStartBalance |->
     OrElse(ToNumber(Defaulted(params.investmentStartBalance, Zero)), Zero),
   monthlyBudget |-> OrElse(ToNumber(Defaulted(params.monthlyBudget, Zero)), Zero),
   investmentReturn |-> OrElse(ToNumber(Defaulted(params.investmentReturn, Zero)), Zero),
   timeHorizon |-> OrElse(ToNumber(Defaulted(params.timeHorizon, Num(30))), Num(30))]

\* the totals pushed by the cumulative-cost loop of calculateScenario for the
\* months lo..hi, total being the total before month lo and cost(month) the
\* amount month adds (nothing in month 0)
RECURSIVE OwnCumulativeLoop(_, _, _, _)
OwnCumulativeLoop(lo, hi, ownTotal, effectiveMonthlyHousingCost) ==
  IF lo > hi THEN <<>>
  ELSE IF lo = hi
    THEN <<IF lo > 0 THEN Add(ownTotal, effectiveMonthlyHousingCost) ELSE ownTotal>>
  ELSE LET mid == (lo + hi) \div 2
           first == OwnCumulativeLoop(lo, mid, ownTotal, effectiveMonthlyHousingCost)
       IN  first \o OwnCumulativeLoop(mid + 1, hi, first[Len(first)],
                                      effectiveMonthlyHousingCost)

\* the cumulative-cost loop adding to the rent total the rent of the month
\* itself, rentCosts[month]
RECURSIVE RentCumulativeLoop_MonthsRent(_, _, _, _)
RentCumulativeLoop_MonthsRent(lo, hi, rentTotal, rentCosts) ==
  IF lo > hi THEN <<>>
  ELSE IF lo = hi
    THEN <<IF lo > 0 THEN Add(rentTotal, NumAt(rentCosts, lo)) ELSE rentTotal>>
  ELSE LET mid == (lo + hi) \div 2
           first == RentCumulativeLoop_MonthsRent(lo, mid, rentTotal, rentCosts)
       IN  first \o RentCumulativeLoop_MonthsRent(mid + 1, hi, first[Len(first)], rentCosts)

RECURSIVE RentCumulativeLoop(_, _, _, _)
RentCumulativeLoop(lo, hi, rentTotal, rentCosts) ==
  IF lo > hi THEN <<>>
  ELSE IF lo = hi
    THEN <<IF lo > 0 THEN Add(rentTotal, NumAt(rentCosts, lo - 1)) ELSE rentTotal>>
  ELSE LET mid == (lo + hi) \div 2
           first == RentCumulativeLoop(lo, mid, rentTotal, rentCosts)
       IN  first \o RentCumulativeLoop(mid + 1, hi, first[Len(first)], rentCosts)

\* the break-even loop taking a month of equal net worth for a crossing
RECURSIVE BreakEvenLoop_Tie(_, _, _, _)
BreakEvenLoop_Tie(lo, hi, ownNetWorth, rentInvestments) ==
  IF lo > hi THEN JsNull
  ELSE IF lo = hi
    THEN IF Ge(NumAt(ownNetWorth, lo), NumAt(rentInvestments, lo))
         THEN JsNum(Div(Num(lo), Twelve))
         ELSE JsNull
  ELSE LET mid == (lo + hi) \div 2
           first == BreakEvenLoop_Tie(lo, mid, ownNetWorth, rentInvestments)
       IN  IF first # JsNull THEN first
           ELSE BreakEvenLoop_Tie(mid + 1, hi, ownNetWorth, rentInvestments)

\* the break-even loop of calculateScenario over the months lo..hi: null, or
\* month / 12 of the first month (in increasing order) whose own net worth is
\* greater than the rent investments; months after it are not looked at
RECURSIVE BreakEvenLoop(_, _, _, _)
BreakEvenLoop(lo, hi, ownNetWorth, rentInvestments) ==
  IF lo > hi THEN JsNull
  ELSE IF lo = hi
    THEN IF Gt(NumAt(ownNetWorth, lo), NumAt(rentInvestments, lo))
         THEN JsNum(Div(Num(lo), Twelve))
         ELSE JsNull
  ELSE LET mid == (lo + hi) \div 2
           first == BreakEvenLoop(lo, mid, ownNetWorth, rentInvestments)
       IN  IF first # JsNull THEN first
           ELSE BreakEvenLoop(mid + 1, hi, ownNetWorth, rentInvestments)

\* what a call that threw leaves its caller with
Thrown(name) ==
  [threw |-> name,
   ownScenario |-> [netWorth |-> <<>>, homeEquity |-> <<>>, investments |-> <<>>,
                    totalCosts |-> <<>>, monthlyPayments |-> <<>>,
                    monthlyInvestment |-> NaN],
   rentScenario |-> [netWorth |-> <<>>, investments |-> <<>>, totalCosts |-> <<>>,
                     monthlyPayments |-> <<>>, monthlyInvestment |-> <<>>],
   breakEvenPoint |-> JsUndefined,
   downPaymentAmount |-> NaN,
   ownStartingInvestmentBalance |-> NaN,
   monthlyMortgagePayment |-> NaN,
   monthlyHousingCost |-> NaN,
   effectiveMonthlyHousingCost |-> NaN,
   rentalIncome |-> NaN,
   monthlyBudget |-> NaN]

\* the monthly investment of the own scenario taking the effective housing
\* cost (what rental income leaves of it) from the budget
OwnMonthlyInvestment_Effective(monthlyBudget, monthlyHousingCost, rentalIncome) ==
  MathMax(Zero, Sub(monthlyBudget, MathMax(Zero, Sub(monthlyHousingCost, rentalIncome))))

\* ownMonthlyInvestment of calculateScenario
OwnMonthlyInvestment(monthlyBudget, monthlyHousingCost, rentalIncome) ==
  MathMax(Zero, Add(Sub(monthlyBudget, monthlyHousingCost), rentalIncome))

\* calculateScenario once the series of the two scenarios are computed: the
\* rest of its body (cumulative costs, break-even point, returned object)
ScenarioResult(safeParams, months, downPaymentAmount, monthlyMortgagePayment, monthlyHousingCost, effectiveMonthlyHousingCost, homeEquity, ownMonthlyInvestment, ownStartingInvestmentBalance, ownInvestments, rentCosts) ==
  LET ownNetWorth ==
        ArrayOf([index \in 1..Len(homeEquity) |->
                   Add(homeEquity[index], NumAt(ownInvestments, index - 1))])
      rentMonthlyInvestments ==
        ArrayOf([index \in 1..Len(rentCosts) |->
                   MathMax(Zero, Sub(safeParams.monthlyBudget, rentCosts[index]))])
      rentInvestments ==
        calculateInvestmentGrowthWithVariableContributions(
          JsNum(safeParams.investmentStartBalance), AsValues(rentMonthlyInvestments),
          JsNum(safeParams.investmentReturn), JsNum(months))
      ownCumulativeCosts ==
        OwnCumulativeLoop(0, LastMonth(months), Zero, effectiveMonthlyHousingCost)
      rentCumulativeCosts == RentCumulativeLoop(0, LastMonth(months), Zero, rentCosts)
      breakEvenPoint ==
        BreakEvenLoop(0, LastMonth(months), ownNetWorth, rentInvestments)
  IN  IF ~ValidArrayLength(Add(months, One)) THEN Thrown("RangeError")
      ELSE [threw |-> "",
            ownScenario |->
              [netWorth |-> ownNetWorth,
               homeEquity |-> homeEquity,
               investments |-> ownInvestments,
               totalCosts |-> ownCumulativeCosts,
               monthlyPayments |-> ArrayFill(Add(months, One), effectiveMonthlyHousingCost),
               monthlyInvestment |-> ownMonthlyInvestment],
            rentScenario |->
              [netWorth |-> rentInvestments,
               investments |-> rentInvestments,
               totalCosts |-> rentCumulativeCosts,
               monthlyPayments |-> rentCosts,
               monthlyInvestment |-> rentMonthlyInvestments],
            breakEvenPoint |-> breakEvenPoint,
            downPaymentAmount |-> downPaymentAmount,
            ownStartingInvestmentBalance |-> ownStartingInvestmentBalance,
            monthlyMortgagePayment |-> monthlyMortgagePayment,
            monthlyHousingCost |-> monthlyHousingCost,
            effectiveMonthlyHousingCost |-> effectiveMonthlyHousingCost,
            rentalIncome |-> safeParams.rentalIncome,
            monthlyBudget |-> safeParams.monthlyBudget]

\* calculateScenario once safeParams is built: the amounts of the own
\* scenario, then the series
ScenarioOf(safeParams) ==
  LET months == Mul(safeParams.timeHorizon, Twelve)
      downPaymentAmount == Mul(Div(safeParams.downPayment, Hundred), safeParams.homePrice)
      loanAmount == Sub(safeParams.homePrice, downPaymentAmount)
      monthlyMortgagePayment ==
        calculateMonthlyPayment(JsNum(loanAmount), JsNum(safeParams.mortgageRate),
                                JsNum(safeParams.loanTerm))
      monthlyHousingCost ==
        calculateMonthlyHousingCost(
          monthlyMortgagePayment,
          Mul(Div(safeParams.propertyTaxRate, Hundred), safeParams.homePrice),
          safeParams.homeInsurance, safeParams.maintenanceCost, safeParams.hoaFees)
      effectiveMonthlyHousingCost ==
        MathMax(Zero, Sub(monthlyHousingCost, safeParams.rentalIncome))
      homeEquity ==
        calculateHomeEquity(JsNum(safeParams.homePrice),
                            JsNum(safeParams.homeAppreciationRate),
                            JsNum(downPaymentAmount), JsNum(loanAmount),
                            JsNum(safeParams.mortgageRate), JsNum(safeParams.loanTerm),
                            JsNum(months))
      ownMonthlyInvestment ==
        OwnMonthlyInvestment(safeParams.monthlyBudget, monthlyHousingCost,
                             safeParams.rentalIncome)
      ownStartingInvestmentBalance ==
        MathMax(Zero, Sub(safeParams.investmentStartBalance, downPaymentAmount))
      ownInvestments ==
        calculateInvestmentGrowth(JsNum(ownStartingInvestmentBalance),
                                  JsNum(ownMonthlyInvestment),
                                  JsNum(safeParams.investmentReturn), JsNum(months))
      rentCosts ==
        calculateRentalCosts(JsNum(safeParams.monthlyRent),
                             JsNum(safeParams.rentIncreaseRate), JsNum(months))
  IN  ScenarioResult(safeParams, months, downPaymentAmount, monthlyMortgagePayment,
                     monthlyHousingCost, effectiveMonthlyHousingCost, homeEquity,
                     ownMonthlyInvestment, ownStartingInvestmentBalance,
                     ownInvestments, rentCosts)

calculateScenario(params) == ScenarioOf(SafeParams(params))

\* v < k, v > k and v <= k as validateParameters writes them on a field
JsLt(v, k) == Lt(ToNumber(v), k)
JsGt(v, k) == Gt(ToNumber(v), k)
JsLe(v, k) == Le(ToNumber(v), k)

\* the keys of the errors object of validateParameters
ValidationErrors(params) ==
  {f \in Fields :
     \/ f = "homePrice" /\ (~ToBoolean(params.homePrice) \/ JsLe(params.homePrice, Zero))
     \/ f = "downPayment"
          /\ (JsLt(params.downPayment, Zero) \/ JsGt(params.downPayment, Hundred))
     \/ f = "mortgageRate"
          /\ (JsLt(params.mortgageRate, Zero) \/ JsGt(params.mortgageRate, Num(50)))
     \/ f = "loanTerm"
          /\ (\/ ~ToBoolean(params.loanTerm)
              \/ JsLe(params.loanTerm, Zero)
              \/ JsGt(params.loanTerm, Num(50)))
     \/ f = "propertyTaxRate"
          /\ (JsLt(params.propertyTaxRate, Zero) \/ JsGt(params.propertyTaxRate, Num(10)))
     \/ f = "monthlyRent"
          /\ (~ToBoolean(params.monthlyRent) \/ JsLe(params.monthlyRent, Zero))
     \/ f = "rentIncreaseRate"
          /\ (JsLt(params.rentIncreaseRate, Zero) \/ JsGt(params.rentIncreaseRate, Num(20)))
     \/ f = "investmentReturn"
          /\ (JsLt(params.investmentReturn, Num(-50)) \/ JsGt(params.investmentReturn, Num(50)))
     \/ f = "timeHorizon"
          /\ (\/ ~ToBoolean(params.timeHorizon)
              \/ JsLe(params.timeHorizon, Zero)
              \/ JsGt(params.timeHorizon, Num(50)))}

validateParameters(params) ==
  LET errors == ValidationErrors(params)
  IN  [isValid |-> Cardinality(errors) = 0, errors |-> errors]


\* ------------------------------------------------------------------------
\* hooks/useCalculations.js
\* ------------------------------------------------------------------------
requiredParams ==
  <<"homePrice", "downPayment", "mortgageRate", "loanTerm", "monthlyRent",
    "investmentReturn", "timeHorizon">>

\* requiredParams.filter(param => parameters[param] === undefined ||
\* parameters[param] === null)
missingParams(parameters) ==
  SelectSeq(requiredParams, LAMBDA param : parameters[param].t \in {"undefined", "null"})

\* array.join(', ') on an array of strings, the text kept as a sequence of
\* its pieces
RECURSIVE Join(_)
Join(items) ==
  IF Len(items) <= 1 THEN items
  ELSE <<Head(items), ", ">> \o Join(Tail(items))

\* the test of the hook's validateParameters on the down payment amount: set
\* when the amount exceeds the starting investment balance
ExceedsBalance(params) ==
  /\ ToBoolean(params.homePrice)
  /\ ToBoolean(params.downPayment)
  /\ params.investmentStartBalance.t # "undefined"
  /\ Gt(Mul(Div(ToNumber(params.downPayment), Hundred), ToNumber(params.homePrice)),
        OrElse(ToNumber(params.investmentStartBalance), Zero))

\* the keys of the errors object of the hook's validateParameters, in the
\* order in which they are set (the records of this module carry no
\* monthlyInvestment, and undefined < 0 is false)
HookErrorKeys(params) ==
  SelectSeq(
    <<"homePrice", "downPayment", "mortgageRate", "loanTerm", "propertyTaxRate",
      "monthlyRent", "rentIncreaseRate", "investmentReturn", "timeHorizon",
      "homeInsurance", "maintenanceCost", "hoaFees", "investmentStartBalance",
      "homeAppreciationRate", "rentalIncome">>,
    LAMBDA f :
      CASE f = "homePrice" -> ~ToBoolean(params.homePrice) \/ JsLe(params.homePrice, Zero)
        [] f = "downPayment" ->
             \/ JsLt(params.downPayment, Zero)
             \/ JsGt(params.downPayment, Hundred)
             \/ ExceedsBalance(params)
        [] f = "mortgageRate" ->
             JsLt(params.mortgageRate, Zero) \/ JsGt(params.mortgageRate, Num(50))
        [] f = "loanTerm" -> JsLt(params.loanTerm, One) \/ JsGt(params.loanTerm, Num(50))
        [] f = "propertyTaxRate" ->
             JsLt(params.propertyTaxRate, Zero) \/ JsGt(params.propertyTaxRate, Num(10))
        [] f = "monthlyRent" ->
             ~ToBoolean(params.monthlyRent) \/ JsLe(params.monthlyRent, Zero)
        [] f = "rentIncreaseRate" ->
             JsLt(params.rentIncreaseRate, Zero) \/ JsGt(params.rentIncreaseRate, Num(20))
        [] f = "investmentReturn" ->
             JsLt(params.investmentReturn, Num(-50)) \/ JsGt(params.investmentReturn, Num(50))
        [] f = "timeHorizon" ->
             JsLt(params.timeHorizon, One) \/ JsGt(params.timeHorizon, Num(50))
        [] f = "homeAppreciationRate" ->
             \/ JsLt(params.homeAppreciationRate, Num(-10))
             \/ JsGt(params.homeAppreciationRate, Num(20))
        [] OTHER -> JsLt(params[f], Zero))

\* the message stored under a key of errors (the amounts the down payment
\* message quotes are left out of its text)
HookErrorMessage(params, f) ==
  CASE f = "homePrice" -> "Home price must be greater than 0"
    [] f = "downPayment" ->
         IF ExceedsBalance(params)
           THEN "Down payment exceeds available investment balance for ownership scenario"
           ELSE "Down payment must be between 0% and 100%"
    [] f = "mortgageRate" -> "Mortgage rate must be between 0% and 50%"
    [] f = "loanTerm" -> "Loan term must be between 1 and 50 years"
    [] f = "propertyTaxRate" -> "Property tax rate must be between 0% and 10%"
    [] f = "monthlyRent" -> "Monthly rent must be greater than 0"
    [] f = "rentIncreaseRate" -> "Rent increase rate must be between 0% and 20%"
    [] f = "investmentReturn" -> "Investment return must be between -50% and 50%"
    [] f = "timeHorizon" -> "Time horizon must be between 1 and 50 years"
    [] f = "homeInsurance" -> "Home insurance cannot be negative"
    [] f = "maintenanceCost" -> "Maintenance cost cannot be negative"
    [] f = "hoaFees" -> "HOA fees cannot be negative"
    [] f = "investmentStartBalance" -> "Investment start balance cannot be negative"
    [] f = "homeAppreciationRate" -> "Home appreciation rate must be between -10% and 20%"
    [] f = "rentalIncome" -> "Rental income cannot be negative"

\* validateParameters of useCalculations.js: errors holds Object.values(errors)
HookValidateParameters(params) ==
  LET keys == HookErrorKeys(params)
  IN  [isValid |-> Len(keys) = 0,
       errors |-> [i \in 1..Len(keys) |-> HookErrorMessage(params, keys[i])] \o <<>>]

\* what the catch block of the results memo returns for an error message
FailedResults(message) ==
  [error |-> JsStr(message), ownScenario |-> JsNull, rentScenario |-> JsNull,
   breakEvenPoint |-> JsNull]

\* the results memo once calculateScenario has run: its value, or what the
\* catch block makes of the RangeError it threw (results.error is undefined on
\* the object calculateScenario returns)
ResultsOf(scenario) ==
  IF scenario.threw # "" THEN FailedResults(<<"Invalid array length">>)
  ELSE [error |-> JsUndefined] @@ scenario

\* the results memo
HookResults(parameters) ==
  LET missing == missingParams(parameters)
      validationErrors == HookValidateParameters(parameters)
  IN  IF Len(missing) > 0
        THEN FailedResults(<<"Missing required parameters: ">> \o Join(missing))
      ELSE IF ~validationErrors.isValid
        THEN FailedResults(<<"Invalid parameters: ">> \o Join(validationErrors.errors))
      ELSE ResultsOf(calculateScenario(parameters))

\* results.error || !results.ownScenario || !results.rentScenario
NothingToShow(results) ==
  \/ ToBoolean(results.error)
  \/ results.ownScenario = JsNull
  \/ results.rentScenario = JsNull

\* Number(series[index]) || 0 for an index that may be no whole number
ValueAt(series, index) ==
  OrElse(IF IsFinite(index) /\ IsInteger(index) THEN NumAt(series, index[1]) ELSE NaN,
         Zero)

\* the object the summary memo returns, recommending to own on a tie as well
SummaryOf_TieIsOwn(parameters, results, timeHorizon, ownFinalNetWorth, rentFinalNetWorth, ownTotalCosts, rentTotalCosts) ==
  [ownFinalNetWorth |-> ownFinalNetWorth,
   rentFinalNetWorth |-> rentFinalNetWorth,
   netWorthDifference |-> Sub(ownFinalNetWorth, rentFinalNetWorth),
   netWorthDifferencePercent |->
     IF rentFinalNetWorth # Zero
       THEN Mul(Div(Sub(ownFinalNetWorth, rentFinalNetWorth), rentFinalNetWorth), Hundred)
       ELSE Zero,
   ownTotalCosts |-> ownTotalCosts,
   rentTotalCosts |-> rentTotalCosts,
   costDifference |-> Sub(ownTotalCosts, rentTotalCosts),
   timeHorizon |-> timeHorizon,
   breakEvenPoint |-> results.breakEvenPoint,
   recommendation |->
     IF Ge(Sub(ownFinalNetWorth, rentFinalNetWorth), Zero) THEN "own" ELSE "rent",
   rentalIncome |-> OrElse(ToNumber(parameters.rentalIncome), Zero),
   downPaymentAmount |-> OrElse(results.downPaymentAmount, Zero),
   ownStartingInvestments |-> OrElse(results.ownStartingInvestmentBalance, Zero),
   rentStartingInvestments |-> OrElse(ToNumber(parameters.investmentStartBalance), Zero)]

\* the object the summary memo returns, from the final values it has read
SummaryOf(parameters, results, timeHorizon, ownFinalNetWorth, rentFinalNetWorth, ownTotalCosts, rentTotalCosts) ==
  [ownFinalNetWorth |-> ownFinalNetWorth,
   rentFinalNetWorth |-> rentFinalNetWorth,
   netWorthDifference |-> Sub(ownFinalNetWorth, rentFinalNetWorth),
   netWorthDifferencePercent |->
     IF rentFinalNetWorth # Zero
       THEN Mul(Div(Sub(ownFinalNetWorth, rentFinalNetWorth), rentFinalNetWorth), Hundred)
       ELSE Zero,
   ownTotalCosts |-> ownTotalCosts,
   rentTotalCosts |-> rentTotalCosts,
   costDifference |-> Sub(ownTotalCosts, rentTotalCosts),
   timeHorizon |-> timeHorizon,
   breakEvenPoint |-> results.breakEvenPoint,
   recommendation |->
     IF Gt(Sub(ownFinalNetWorth, rentFinalNetWorth), Zero) THEN "own" ELSE "rent",
   rentalIncome |-> OrElse(ToNumber(parameters.rentalIncome), Zero),
   downPaymentAmount |-> OrElse(results.downPaymentAmount, Zero),
   ownStartingInvestments |-> OrElse(results.ownStartingInvestmentBalance, Zero),
   rentStartingInvestments |-> OrElse(ToNumber(parameters.investmentStartBalance), Zero)]

\* the summary memo once finalIndex is known: the four values read at it
SummaryAt(parameters, results, timeHorizon, finalIndex) ==
  SummaryOf(parameters, results, timeHorizon,
            ValueAt(results.ownScenario.netWorth, finalIndex),
            ValueAt(results.rentScenario.netWorth, finalIndex),
            ValueAt(results.ownScenario.totalCosts, finalIndex),
            ValueAt(results.rentScenario.totalCosts, finalIndex))

\* the summary memo once timeHorizon is known
SummaryOver(parameters, results, timeHorizon) ==
  SummaryAt(parameters, results, timeHorizon,
            MathMin(Mul(timeHorizon, Twelve),
                    Num(Len(results.ownScenario.netWorth) - 1)))

\* the summary memo
HookSummary(parameters, results) ==
  IF NothingToShow(results) THEN JsNull
  ELSE SummaryOver(parameters, results,
                   OrElse(ToNumber(parameters.timeHorizon), Num(30)))

\* the point of the chart for a year, read at monthIndex = year * 12
ChartPoint(results, year) ==
  LET monthIndex == year * 12
  IN  [year |-> year,
       ownNetWorth |-> OrElse(NumAt(results.ownScenario.netWorth, monthIndex), Zero),
       rentNetWorth |-> OrElse(NumAt(results.rentScenario.netWorth, monthIndex), Zero),
       homeEquity |-> NumAt(results.ownScenario.homeEquity, monthIndex),
       ownInvestments |-> NumAt(results.ownScenario.investments, monthIndex),
       rentInvestments |-> NumAt(results.rentScenario.investments, monthIndex),
       ownCosts |-> NumAt(results.ownScenario.totalCosts, monthIndex),
       rentCosts |-> NumAt(results.rentScenario.totalCosts, monthIndex),
       ownMonthlyPayment |-> NumAt(results.ownScenario.monthlyPayments, monthIndex),
       rentMonthlyPayment |-> NumAt(results.rentScenario.monthlyPayments, monthIndex)]

\* the points of the chart for the years 0..years: one for every year whose
\* month both net worth series reach
ChartPoints(results, years) ==
  SelectSeq([i \in 1..(LastMonth(years) + 1) |-> ChartPoint(results, i - 1)] \o <<>>,
            LAMBDA point :
              /\ point.year * 12 < Len(results.ownScenario.netWorth)
              /\ point.year * 12 < Len(results.rentScenario.netWorth))

\* the chartData memo
HookChartData(parameters, results) ==
  IF NothingToShow(results) THEN JsNull
  ELSE ChartPoints(results, OrElse(ToNumber(parameters.timeHorizon), Num(30)))

\* what useCalculations returns once the results memo has its value
HookReturn(parameters, results) ==
  [results |-> results,
   summary |-> HookSummary(parameters, results),
   chartData |-> HookChartData(parameters, results),
   isValid |-> ~ToBoolean(results.error),
   error |-> results.error]

\* useCalculations(parameters): what a render gets from the hook
useCalculations(parameters) == HookReturn(parameters, HookResults(parameters))

\* before the first render
NotRendered ==
  [results |-> FailedResults(<<>>), summary |-> JsNull, chartData |-> JsNull,
   isValid |-> FALSE, error |-> JsUndefined]


\* ------------------------------------------------------------------------
\* The URL codec (useURLParams): a parameter record is written into the
\* query string of a share link, and read back from it when App loads.
\* Strings are sequences of characters.
\* ------------------------------------------------------------------------

\* the parameters of App before any change, in the order of their keys
defaultParameters ==
  [homePrice |-> JsNum(Num(500000)),
   downPayment |-> JsNum(Num(20)),
   mortgageRate |-> JsNum(Q(13, 2)),
   loanTerm |-> JsNum(Num(30)),
   propertyTaxRate |-> JsNum(Q(6, 5)),
   homeInsurance |-> JsNum(Num(1500)),
   maintenanceCost |-> JsNum(Num(5000)),
   hoaFees |-> JsNum(Zero),
   homeAppreciationRate |-> JsNum(Num(3)),
   rentalIncome |-> JsNum(Zero),
   monthlyRent |-> JsNum(Num(2500)),
   rentIncreaseRate |-> JsNum(Num(3)),
   investmentStartBalance |-> JsNum(Num(120000)),
   monthlyBudget |-> JsNum(Num(3500)),
   investmentReturn |-> JsNum(Num(7)),
   timeHorizon |-> JsNum(Num(30))]

\* Object.entries(parameters) lists the fields in this order
EntriesOrder ==
  <<"homePrice", "downPayment", "mortgageRate", "loanTerm", "propertyTaxRate",
    "homeInsurance", "maintenanceCost", "hoaFees", "homeAppreciationRate",
    "rentalIncome", "monthlyRent", "rentIncreaseRate", "investmentStartBalance",
    "monthlyBudget", "investmentReturn", "timeHorizon">>

\* the short name of each parameter the codec knows
urlParams ==
  [homePrice |-> <<"h", "p">>,
   downPayment |-> <<"d", "p">>,
   mortgageRate |-> <<"m", "r">>,
   loanTerm |-> <<"l", "t">>,
   propertyTaxRate |-> <<"p", "t">>,
   homeInsurance |-> <<"h", "i">>,
   maintenanceCost |-> <<"m", "c">>,
   hoaFees |-> <<"h", "o", "a">>,
   homeAppreciationRate |-> <<"h", "a", "r">>,
   rentalIncome |-> <<"r", "i">>,
   monthlyRent |-> <<"r", "e", "n", "t">>,
   rentIncreaseRate |-> <<"r", "i", "r">>,
   investmentStartBalance |-> <<"i", "s", "b">>,
   monthlyInvestment |-> <<"m", "i">>,
   investmentReturn |-> <<"i", "r">>,
   timeHorizon |-> <<"t", "h">>]

\* useURLParams() without an argument: defaultParams = {}
NoDefaults == [k \in {} |-> JsUndefined]

\* a === b
StrictlyEqual(a, b) == a = b /\ ~(a.t = "number" /\ IsNaN(a.num))

\* value.toString()
ValueToString(v) == IF v.t = "number" THEN NumberToString(v.num) ELSE v.str

\* the characters of a name or value as URLSearchParams writes them: letters,
\* digits, "-", "." and "_" as they are, a space as "+", a "+" as %2B
RECURSIVE FormEncode(_)
FormEncode(s) ==
  IF s = <<>> THEN <<>>
  ELSE (CASE s[1] = " " -> <<"+">>
          [] s[1] = "+" -> <<"%", "2", "B">>
          [] OTHER -> <<s[1]>>) \o FormEncode(Tail(s))

\* and as URLSearchParams reads them
RECURSIVE FormDecode(_)
FormDecode(s) ==
  IF s = <<>> THEN <<>>
  ELSE IF s[1] = "+" THEN <<" ">> \o FormDecode(Tail(s))
  ELSE IF Len(s) >= 3 /\ SubSeq(s, 1, 3) = <<"%", "2", "B">>
    THEN <<"+">> \o FormDecode(SubSeq(s, 4, Len(s)))
  ELSE <<s[1]>> \o FormDecode(Tail(s))

\* URLSearchParams.toString(): name=value pairs joined by "&"
RECURSIVE QueryString(_)
QueryString(pairs) ==
  IF pairs = <<>> THEN <<>>
  ELSE FormEncode(pairs[1][1]) \o <<"=">> \o FormEncode(pairs[1][2])
       \o (IF Len(pairs) = 1 THEN <<>> ELSE <<"&">> \o QueryString(Tail(pairs)))

\* one name=value piece of a query string
QueryPair(piece) ==
  LET eq == CharAt(piece, "=", 1)
  IN  IF eq = 0 THEN <<FormDecode(piece), <<>>>>
      ELSE <<FormDecode(SubSeq(piece, 1, eq - 1)),
             FormDecode(SubSeq(piece, eq + 1, Len(piece)))>>

\* new URLSearchParams(search): the pairs of a query string
RECURSIVE QueryPairs(_)
QueryPairs(search) ==
  LET amp == CharAt(search, "&", 1)
      piece == IF amp = 0 THEN search ELSE SubSeq(search, 1, amp - 1)
      rest == IF amp = 0 THEN <<>> ELSE QueryPairs(SubSeq(search, amp + 1, Len(search)))
  IN  IF search = <<>> THEN <<>>
      ELSE IF piece = <<>> THEN rest
      ELSE <<QueryPair(piece)>> \o rest

\* URLSearchParams.get(name): the first value of that name, or null
RECURSIVE SearchGet(_, _)
SearchGet(pairs, name) ==
  IF pairs = <<>> THEN JsNull
  ELSE IF pairs[1][1] = name THEN JsStr(pairs[1][2])
  ELSE SearchGet(Tail(pairs), name)

\* the entries generateShareURL writes: the parameter has a short name, a
\* value, and no default equal to it
Shared(parameters, defaultParams, key) ==
  /\ key \in DOMAIN urlParams
  /\ parameters[key].t \notin {"null", "undefined"}
  /\ \/ key \notin DOMAIN defaultParams
     \/ defaultParams[key].t = "undefined"
     \/ ~StrictlyEqual(parameters[key], defaultParams[key])

RECURSIVE SharedPairs(_, _, _)
SharedPairs(parameters, defaultParams, keys) ==
  IF keys = <<>> THEN <<>>
  ELSE (IF Shared(parameters, defaultParams, keys[1])
          THEN <<<<urlParams[keys[1]], ValueToString(parameters[keys[1]])>>>>
          ELSE <<>>)
       \o SharedPairs(parameters, defaultParams, Tail(keys))

\* generateShareURL(parameters) of a useURLParams(defaultParams): the query
\* string of the link (the address in front of it is the page's own)
generateShareURL(parameters, defaultParams) ==
  QueryString(SharedPairs(parameters, defaultParams, EntriesOrder))

\* isNaN(value) of a string
IsNaNString(value) == IsNaN(DecimalToNumber(value))

\* parseURLParams(): the parameters named in window.location.search
parseURLParams(search) ==
  LET pairs == QueryPairs(search)
      given == {fullKey \in DOMAIN urlParams :
                  /\ SearchGet(pairs, urlParams[fullKey]).t # "null"
                  /\ ~IsNaNString(SearchGet(pairs, urlParams[fullKey]).str)}
  IN  [fullKey \in given |-> JsNum(ParseFloat(SearchGet(pairs, urlParams[fullKey]).str))]

\* {...prev, ...over}
Merge(prev, over) ==
  [k \in DOMAIN prev \cup DOMAIN over |-> IF k \in DOMAIN over THEN over[k] ELSE prev[k]]

\* no link has been made
NoLink == [from |-> NoDefaults, search |-> <<>>, by |-> ""]


\* ------------------------------------------------------------------------
\* The saved scenarios (useLocalStorage): the hook keeps a value in React
\* state and writes its JSON text under a key of localStorage. A scenario is
\* the object {id}; the other fields of a scenario are carried along
\* untouched by the code and are left out. Values are arrays of scenarios,
\* objects {scenarios: array} (the shape the retry of setStoredValue looks
\* for), updater functions, and undefined.
\* ------------------------------------------------------------------------
JsonArray(items) == [kind |-> "array", items |-> items]
JsonObject(items) == [kind |-> "object", items |-> items]
JsonUndefined == [kind |-> "undefined", items |-> <<>>]
\* prev => [...prev, scenario] and prev => prev.filter(s => s.id !== scenarioId)
AppendUpdater(id) == [kind |-> "append", items |-> <<[id |-> id]>>]
FilterUpdater(id) == [kind |-> "filter", items |-> <<[id |-> id]>>]

\* the number of characters localStorage holds under the key; a longer text
\* makes setItem throw QuotaExceededError
StorageQuota == 20

\* JSON.stringify of a scenario: {"id":n}
ScenarioText(scenario) ==
  <<"{", "\"", "i", "d", "\"", ":">> \o DigitsOf(scenario.id) \o <<"}">>

RECURSIVE ItemsText(_)
ItemsText(items) ==
  IF items = <<>> THEN <<>>
  ELSE ScenarioText(items[1])
       \o (IF Len(items) = 1 THEN <<>> ELSE <<",">> \o ItemsText(Tail(items)))

ScenariosKey == <<"{", "\"", "s", "c", "e", "n", "a", "r", "i", "o", "s", "\"", ":">>

\* String(JSON.stringify(value)), the text setItem is given: JSON.stringify
\* of a function or of undefined is undefined, which setItem stores as the
\* text undefined
StoredText(value) ==
  CASE value.kind = "array" -> <<"[">> \o ItemsText(value.items) \o <<"]">>
    [] value.kind = "object" ->
         ScenariosKey \o <<"[">> \o ItemsText(value.items) \o <<"]", "}">>
    [] OTHER -> <<"u", "n", "d", "e", "f", "i", "n", "e", "d">>

\* the outcome of a parse: a value, or the error thrown
Parsed(value) == [threw |-> "", value |-> value]
ParseError == [threw |-> "SyntaxError", value |-> JsonUndefined]

\* JSON.parse of the text of one scenario
ParseScenario(piece) ==
  IF /\ Len(piece) >= 8
     /\ SubSeq(piece, 1, 6) = <<"{", "\"", "i", "d", "\"", ":">>
     /\ piece[Len(piece)] = "}"
     /\ DigitsValue(SubSeq(piece, 7, Len(piece) - 1)) >= 0
    THEN Parsed(<<[id |-> DigitsValue(SubSeq(piece, 7, Len(piece) - 1))]>>)
    ELSE ParseError

\* JSON.parse of the elements of an array, separated by commas
RECURSIVE ParseItems(_)
ParseItems(text) ==
  LET comma == CharAt(text, ",", 1)
      first == ParseScenario(IF comma = 0 THEN text ELSE SubSeq(text, 1, comma - 1))
      rest == IF comma = 0 THEN Parsed(<<>>)
              ELSE ParseItems(SubSeq(text, comma + 1, Len(text)))
  IN  IF first.threw # "" \/ rest.threw # "" THEN ParseError
      ELSE IF comma # 0 /\ rest.value = <<>> THEN ParseError
      ELSE Parsed(first.value \o rest.value)

ParseArray(text) ==
  IF Len(text) < 2 \/ text[1] # "[" \/ text[Len(text)] # "]" THEN ParseError
  ELSE IF Len(text) = 2 THEN Parsed(<<>>)
  ELSE ParseItems(SubSeq(text, 2, Len(text) - 1))

\* JSON.parse(text): an array of scenarios, an object {scenarios: array}, or
\* a SyntaxError
JSONParse(text) ==
  IF text # <<>> /\ text[1] = "["
    THEN (IF ParseArray(text).threw # "" THEN ParseError
          ELSE Parsed(JsonArray(ParseArray(text).value)))
  ELSE IF /\ Len(text) > 14
          /\ SubSeq(text, 1, 13) = ScenariosKey
          /\ text[Len(text)] = "}"
          /\ ParseArray(SubSeq(text, 14, Len(text) - 1)).threw = ""
    THEN Parsed(JsonObject(ParseArray(SubSeq(text, 14, Len(text) - 1)).value))
  ELSE ParseError

\* localStorage.setItem(key, text) on the item held: the item after it, or
\* the error thrown
SetItem(item, text) ==
  IF Len(text) > StorageQuota
    THEN [threw |-> "QuotaExceededError", item |-> item]
    ELSE [threw |-> "", item |-> JsStr(text)]

\* localStorage.getItem(key) || fallback
ItemOr(item, fallback) == IF ToBoolean(item) THEN item.str ELSE fallback

\* items.filter(s => s.id !== scenarioId)
FilterOut(items, id) == SelectSeq(items, LAMBDA s : s.id # id)

\* items.slice(-5)
LastFive(items) ==
  IF Len(items) <= 5 THEN items ELSE SubSeq(items, Len(items) - 4, Len(items))

\* React's setValue(newValue) on the state held: an updater function is
\* applied to the state, anything else replaces it
SetValue(state, newValue) ==
  CASE newValue.kind = "append" -> JsonArray(state.items \o newValue.items)
    [] newValue.kind = "filter" -> JsonArray(FilterOut(state.items, newValue.items[1].id))
    [] OTHER -> newValue

\* the hook's state and the item of localStorage under its key
Stored(value, item) == [value |-> value, item |-> item]

\* the retry of setStoredValue after a QuotaExceededError: when the item
\* parses to an object with more than 10 scenarios, keep the last 5, write
\* again and set the state again; an error on the way ends the retry
RetryWritten(value, trimmed, newValue) ==
  IF trimmed.threw # "" THEN Stored(value, trimmed.item)
  ELSE IF SetItem(trimmed.item, StoredText(newValue)).threw # ""
    THEN Stored(value, trimmed.item)
  ELSE Stored(SetValue(value, newValue),
              SetItem(trimmed.item, StoredText(newValue)).item)

Retry(value, item, newValue) ==
  LET scenarios == JSONParse(ItemOr(item, ScenariosKey \o <<"[", "]", "}">>))
  IN  IF scenarios.threw # "" THEN Stored(value, item)
      ELSE IF scenarios.value.kind = "object" /\ Len(scenarios.value.items) > 10
        THEN RetryWritten(value,
               SetItem(item, StoredText(JsonObject(LastFive(scenarios.value.items)))),
               newValue)
      ELSE Stored(value, item)

\* setStoredValue(newValue): the state is set first, then the item is
\* written; an error of the write is caught, and retried if it is a
\* QuotaExceededError
setStoredValue(held, newValue) ==
  LET written == SetItem(held.item, StoredText(newValue))
  IN  IF written.threw = ""
        THEN Stored(SetValue(held.value, newValue), written.item)
      ELSE IF written.threw = "QuotaExceededError"
        THEN Retry(SetValue(held.value, newValue), held.item, newValue)
      ELSE Stored(SetValue(held.value, newValue), held.item)

\* the initial state of useLocalStorage(key, defaultValue = []): the parsed
\* item, the default if there is none or it does not parse
InitialValue(item) ==
  IF ~ToBoolean(item) THEN JsonArray(<<>>)
  ELSE IF JSONParse(item.str).threw # "" THEN JsonArray(<<>>)
  ELSE JSONParse(item.str).value

\* handleSaveScenario(scenario) of App: write the item directly, then set the
\* state through the hook; on an error set the state with an updater
handleSaveScenario(held, id) ==
  LET currentScenarios == JSONParse(ItemOr(held.item, <<"[", "]">>))
      updatedScenarios == JsonArray(currentScenarios.value.items \o <<[id |-> id]>>)
  IN  IF currentScenarios.threw # "" \/ currentScenarios.value.kind # "array"
        THEN setStoredValue(held, AppendUpdater(id))
      ELSE IF SetItem(held.item, StoredText(updatedScenarios)).threw # ""
        THEN setStoredValue(held, AppendUpdater(id))
      ELSE setStoredValue(
             Stored(held.value, SetItem(held.item, StoredText(updatedScenarios)).item),
             updatedScenarios)

\* handleDeleteScenario(scenarioId) of App, written the same way
handleDeleteScenario(held, id) ==
  LET currentScenarios == JSONParse(ItemOr(held.item, <<"[", "]">>))
      updatedScenarios == JsonArray(FilterOut(currentScenarios.value.items, id))
  IN  IF currentScenarios.threw # "" \/ currentScenarios.value.kind # "array"
        THEN setStoredValue(held, FilterUpdater(id))
      ELSE IF SetItem(held.item, StoredText(updatedScenarios)).threw # ""
        THEN setStoredValue(held, FilterUpdater(id))
      ELSE setStoredValue(
             Stored(held.value, SetItem(held.item, StoredText(updatedScenarios)).item),
             updatedScenarios)

\* nothing saved yet: the default value, and no item under the key
NothingStored == Stored(JsonArray(<<>>), JsNull)


\* ------------------------------------------------------------------------
\* The state: the parameter record a caller holds (the parameters state of
\* App), the outcome of calculateScenario on it, and the last direct call of
\* one of the exported sub-calculations.
\* ------------------------------------------------------------------------
VARIABLES params, result, pc, call, hook, link, stored

\* what the React side holds: the value useCalculations returned at the last
\* render, the share link made from the parameters, and the saved scenarios
\* (the state of useLocalStorage with the item of localStorage)
appVars == <<hook, link, stored>>

vars == <<params, result, pc, call, hook, link, stored>>

\* at most this many fields differ from BaseParameters
MaxChanged == 2
\* longest horizon and loan, in months, computed with compounding rates
MaxMonths == 3
MaxPayments == 2

\* the record the exploration starts from: a home of 48 bought half on
\* credit and repaid in one monthly instalment, compared with renting at 24 a
\* month over three months
BaseParameters ==
  [homePrice |-> JsNum(Num(48)),
   downPayment |-> JsNum(Num(50)),
   mortgageRate |-> JsNum(Zero),
   loanTerm |-> JsNum(Q(1, 12)),
   propertyTaxRate |-> JsNum(Zero),
   homeInsurance |-> JsNum(Zero),
   maintenanceCost |-> JsNum(Zero),
   hoaFees |-> JsNum(Zero),
   homeAppreciationRate |-> JsNum(Num(409500)),
   rentalIncome |-> JsNum(Zero),
   monthlyRent |-> JsNum(Num(24)),
   rentIncreaseRate |-> JsNum(Zero),
   investmentStartBalance |-> JsNum(Num(24)),
   monthlyBudget |-> JsNum(Num(40)),
   investmentReturn |-> JsNum(Zero),
   timeHorizon |-> JsNum(Q(1, 4))]

\* the values a caller may put in a field
Choices(f) ==
  CASE f = "homePrice" -> {JsNum(Zero), JsNum(Num(-48)), JsUndefined}
    [] f = "downPayment" -> {JsNum(Zero), JsNum(Num(100)), JsNum(Num(150))}
    [] f = "mortgageRate" -> {JsNum(Num(50)), JsNum(Num(-1800)), JsNum(Num(1200))}
    [] f = "loanTerm" -> {JsNum(Zero), JsNum(Q(1, 6)), JsNum(Num(-1)), JsNull}
    [] f = "propertyTaxRate" -> {JsNum(Q(25, 4)), JsNum(Num(50))}
    [] f = "homeInsurance" -> {JsNum(Num(12)), JsNum(Num(-1200))}
    [] f = "maintenanceCost" -> {JsNum(Num(24))}
    [] f = "hoaFees" -> {JsNum(Num(3)), JsStr(<<"1", "2">>)}
    [] f = "homeAppreciationRate" ->
         {JsNum(Zero), JsNum(Num(-100)), JsNum(Num(-200)), JsUndefined}
    [] f = "rentalIncome" -> {JsNum(Num(10)), JsNum(Num(100))}
    [] f = "monthlyRent" -> {JsNum(Zero), JsNum(Num(44)), JsNum(Num(-24))}
    [] f = "rentIncreaseRate" -> {JsNum(Num(409500)), JsNum(Num(-100))}
    [] f = "investmentStartBalance" ->
         {JsNum(Zero), JsNum(Num(-64)), JsNum(Num(96))}
    [] f = "monthlyBudget" -> {JsNum(Zero), JsNum(Num(80)), JsNum(Num(-10))}
    [] f = "investmentReturn" -> {JsNum(Num(50)), JsNum(Num(-50)), JsNum(Num(1200))}
    [] f = "timeHorizon" ->
         {JsNum(Zero), JsNum(Q(1, 12)), JsNum(Q(1, 10)), JsNum(Num(-1)),
          JsNum(Q(-1, 12)), JsUndefined, JsStr(<<"a", "b", "c">>)}

Changed(p) == Cardinality({f \in Fields : p[f] # BaseParameters[f]})

\* b^(k/12) is rational for every k: b is not positive, or a perfect 12th power
TwelfthPower(b) ==
  \/ ~IsFinite(b)
  \/ b[1] <= 0
  \/ (RootFrom(0, b[1], 12) >= 0 /\ RootFrom(0, b[2], 12) >= 0)

\* The parameter records calculateScenario is applied to: every power taken
\* is rational (before month 1 the only exponent is 0), and a horizon or a
\* loan longer than MaxMonths / MaxPayments months comes with rates that keep
\* the series within 32-bit integers (no compounding over hundreds of
\* months).
Tractable(p) ==
  LET safe == SafeParams(p)
      months == Mul(safe.timeHorizon, Twelve)
      numPayments == Mul(safe.loanTerm, Twelve)
      appreciation == Add(One, Div(safe.homeAppreciationRate, Hundred))
      increase == Add(One, Div(safe.rentIncreaseRate, Hundred))
  IN  /\ Ge(months, One) => (TwelfthPower(appreciation) /\ TwelfthPower(increase))
      /\ IsInteger(numPayments)
      /\ Gt(months, Num(MaxMonths)) =>
           /\ safe.investmentReturn = Zero
           /\ Le(appreciation, Zero)
           /\ Le(increase, One)
      /\ Gt(numPayments, Num(MaxPayments)) => safe.mortgageRate = Zero

NoResult == Thrown("not called")
NoCall == [fn |-> "", args |-> <<>>, ret |-> <<>>]

Init ==
  /\ params = BaseParameters
  /\ result = NoResult
  /\ pc = "edit"
  /\ call = NoCall
  /\ hook = NotRendered
  /\ link = NoLink
  /\ stored = NothingStored

\* the caller changes one field of the record
SetParameter(field, value) ==
  /\ value # params[field]
  /\ Changed([params EXCEPT ![field] = value]) <= MaxChanged
  /\ params' = [params EXCEPT ![field] = value]
  /\ result' = NoResult
  /\ pc' = "edit"
  /\ UNCHANGED call
  /\ UNCHANGED appVars

\* calculateScenario writing the normalised values back into the record it
\* was given
Calculate_WritesBack ==
  /\ pc = "edit"
  /\ Tractable(params)
  /\ result' = calculateScenario(params)
  /\ pc' = "done"
  /\ params' = [f \in Fields |-> JsNum(SafeParams(params)[f])]
  /\ UNCHANGED call
  /\ UNCHANGED appVars

\* calculateScenario(params)
Calculate ==
  /\ pc = "edit"
  /\ Tractable(params)
  /\ result' = calculateScenario(params)
  /\ pc' = "done"
  /\ UNCHANGED <<params, call>>
  /\ UNCHANGED appVars

\* calculateScenario(params) once more, on the record of the call before
\* (second calls are explored on records with fewer than MaxChanged changes)
Recalculate ==
  /\ pc = "done"
  /\ Changed(params) < MaxChanged
  /\ result' = calculateScenario(params)
  /\ pc' = "again"
  /\ UNCHANGED <<params, call>>
  /\ UNCHANGED appVars

Next ==
  \/ \E field \in Fields :
       \E value \in Choices(field) \cup {BaseParameters[field]} :
         SetParameter(field, value)
  \/ Calculate
  \/ Recalculate

Spec == Init /\ [][Next]_vars


\* ------------------------------------------------------------------------
\* Direct calls of the exported sub-calculations, with the arguments drawn
\* from small sets; call holds the function, its arguments and what it
\* returned (a JavaScript value, or an array of numbers). The functions keep
\* nothing from one call to the next, so a behaviour makes one call.
\* ------------------------------------------------------------------------
Principals == {JsNum(Zero), JsNum(Num(1176)), JsNum(Num(-1176)), JsNum(PosInf)}
AnnualRates ==
  {JsNum(Num(-2400)), JsNum(Num(-1800)), JsNum(Num(-600)), JsNum(Zero),
   JsNum(Num(50)), JsNum(Num(1200))}
TermYears ==
  {JsNum(Num(-1)), JsNum(Zero), JsNum(Q(1, 12)), JsNum(Q(1, 6)), JsNum(Q(1, 4)),
   JsNum(PosInf)}
MonthsPaid == {JsNum(Num(m)) : m \in -1..(MaxPayments + 2)}

HomePrices == {JsNum(Zero), JsNum(Num(48)), JsNum(Num(-48))}
AppreciationRates == {JsNum(Num(409500)), JsNum(Num(-100)), JsNum(Num(-200))}
LoanAmounts == {JsNum(Zero), JsNum(Num(24)), JsNum(Num(48))}
MortgageRates == {JsNum(Zero), JsNum(Num(50)), JsNum(Num(-1800))}
LoanTerms == {JsNum(Q(1, 12)), JsNum(Q(1, 6))}
Horizons == {JsNum(Num(-1)), JsNum(Zero), JsNum(Num(MaxMonths))}

CallMonthlyPayment(principal, annualRate, termYears) ==
  /\ call = NoCall
  /\ call' = [fn |-> "calculateMonthlyPayment",
              args |-> <<principal, annualRate, termYears>>,
              ret |-> JsNum(calculateMonthlyPayment(principal, annualRate, termYears))]
  /\ UNCHANGED <<params, result, pc>>
  /\ UNCHANGED appVars

CallRemainingBalance(principal, annualRate, termYears, monthsPaid) ==
  /\ call = NoCall
  /\ call' = [fn |-> "calculateRemainingBalance",
              args |-> <<principal, annualRate, termYears, monthsPaid>>,
              ret |-> calculateRemainingBalance(principal, annualRate, termYears,
                                                monthsPaid)]
  /\ UNCHANGED <<params, result, pc>>
  /\ UNCHANGED appVars

CallHomeEquity(initialPrice, appreciationRate, downPayment, principal, mortgageRate, termYears, months) ==
  /\ call = NoCall
  /\ call' = [fn |-> "calculateHomeEquity",
              args |-> <<initialPrice, appreciationRate, downPayment, principal,
                         mortgageRate, termYears, months>>,
              ret |-> calculateHomeEquity(initialPrice, appreciationRate, downPayment,
                                          principal, mortgageRate, termYears, months)]
  /\ UNCHANGED <<params, result, pc>>
  /\ UNCHANGED appVars

GrowthPrincipals == {JsNum(Num(24)), JsNum(Zero), JsUndefined}
Contributions == {JsNum(Num(8)), JsNum(Zero), JsNum(Num(-8)), JsStr(<<"a", "b", "c">>)}
GrowthRates == {JsNum(Zero), JsNum(Num(1200)), JsNull}
GrowthMonths ==
  {JsNum(Num(-1)), JsNum(Zero), JsNum(One), JsNum(Q(3, 2)), JsNum(Num(MaxMonths)),
   JsUndefined}

CallInvestmentGrowth(principal, monthlyContribution, annualRate, months) ==
  /\ call = NoCall
  /\ call' = [fn |-> "calculateInvestmentGrowth",
              args |-> <<principal, monthlyContribution, annualRate, months>>,
              ret |-> calculateInvestmentGrowth(principal, monthlyContribution,
                                                annualRate, months)]
  /\ UNCHANGED <<params, result, pc>>
  /\ UNCHANGED appVars

\* arrays of monthly contributions: empty, shorter than the horizon, and
\* holding entries that are not numbers
ContributionArrays ==
  {<<>>,
   <<JsNum(Num(8))>>,
   <<JsNum(Num(8)), JsStr(<<"a", "b", "c">>), JsNum(Num(-16)), JsNum(Num(4))>>,
   <<JsUndefined, JsStr(<<"1", "2">>), JsNull>>,
   <<JsNum(NaN), JsNum(Num(4))>>}

CallVariableGrowth(principal, monthlyContributions, annualRate, months) ==
  /\ call = NoCall
  /\ call' = [fn |-> "calculateInvestmentGrowthWithVariableContributions",
              args |-> <<principal, monthlyContributions, annualRate, months>>,
              ret |-> calculateInvestmentGrowthWithVariableContributions(
                        principal, monthlyContributions, annualRate, months)]
  /\ UNCHANGED <<params, result, pc>>
  /\ UNCHANGED appVars

Rents == {JsNum(Num(24)), JsNum(Zero), JsNum(Num(-24)), JsUndefined}
RentIncreaseRates ==
  {JsNum(Zero), JsNum(Num(409500)), JsNum(Num(-100)), JsNum(Num(-200)),
   JsStr(<<"a", "b", "c">>)}
RentMonths ==
  {JsNum(Num(-1)), JsNum(Zero), JsNum(Q(3, 2)), JsNum(Num(MaxMonths)), JsUndefined}

CallRentalCosts(initialRent, rentIncreaseRate, months) ==
  /\ call = NoCall
  /\ call' = [fn |-> "calculateRentalCosts",
              args |-> <<initialRent, rentIncreaseRate, months>>,
              ret |-> calculateRentalCosts(initialRent, rentIncreaseRate, months)]
  /\ UNCHANGED <<params, result, pc>>
  /\ UNCHANGED appVars

NextCalls ==
  \/ \E principal \in Principals, annualRate \in AnnualRates, termYears \in TermYears :
       CallMonthlyPayment(principal, annualRate, termYears)
  \/ \E principal \in Principals, annualRate \in AnnualRates, termYears \in TermYears,
        monthsPaid \in MonthsPaid :
       CallRemainingBalance(principal, annualRate, termYears, monthsPaid)
  \/ \E initialPrice \in HomePrices, appreciationRate \in AppreciationRates,
        principal \in LoanAmounts, mortgageRate \in MortgageRates,
        termYears \in LoanTerms, months \in Horizons :
       CallHomeEquity(initialPrice, appreciationRate, JsNum(Num(24)), principal,
                      mortgageRate, termYears, months)
  \/ \E principal \in GrowthPrincipals, monthlyContribution \in Contributions,
        annualRate \in GrowthRates, months \in GrowthMonths :
       CallInvestmentGrowth(principal, monthlyContribution, annualRate, months)
  \/ \E principal \in GrowthPrincipals, monthlyContributions \in ContributionArrays,
        annualRate \in GrowthRates, months \in GrowthMonths :
       CallVariableGrowth(principal, monthlyContributions, annualRate, months)
  \/ \E initialRent \in Rents, rentIncreaseRate \in RentIncreaseRates,
        months \in RentMonths :
       CallRentalCosts(initialRent, rentIncreaseRate, months)

SpecCalls == Init /\ [][NextCalls]_vars


\* ------------------------------------------------------------------------
\* The calculator as App renders it: App holds the parameter record, a
\* change of a field re-renders it, and the render calls
\* useCalculations(parameters). The record starts from one the hook accepts:
\* a home of 100 bought with 40 down and 60 repaid over a year without
\* interest, appreciating 3 % a year, against a rent of 24 a month.
\* ------------------------------------------------------------------------
HookBaseParameters ==
  [homePrice |-> JsNum(Num(100)),
   downPayment |-> JsNum(Num(40)),
   mortgageRate |-> JsNum(Zero),
   loanTerm |-> JsNum(One),
   propertyTaxRate |-> JsNum(Zero),
   homeInsurance |-> JsNum(Zero),
   maintenanceCost |-> JsNum(Zero),
   hoaFees |-> JsNum(Zero),
   homeAppreciationRate |-> JsNum(Num(3)),
   rentalIncome |-> JsNum(Zero),
   monthlyRent |-> JsNum(Num(24)),
   rentIncreaseRate |-> JsNum(Zero),
   investmentStartBalance |-> JsNum(Num(40)),
   monthlyBudget |-> JsNum(Num(40)),
   investmentReturn |-> JsNum(Zero),
   timeHorizon |-> JsNum(One)]

\* the values a field is changed to: absent, outside and inside the range
\* the hook checks
HookChoices(f) ==
  CASE f = "homePrice" -> {JsNum(Zero), JsUndefined}
    [] f = "downPayment" -> {JsNum(Num(150)), JsNull}
    [] f = "mortgageRate" -> {JsNum(Num(51)), JsUndefined}
    [] f = "loanTerm" -> {JsNum(Q(1, 2)), JsNull}
    [] f = "propertyTaxRate" -> {JsNum(Num(11))}
    [] f = "homeInsurance" -> {JsNum(Num(-1))}
    [] f = "maintenanceCost" -> {JsNum(Num(291)), JsNum(Num(480))}
    [] f = "hoaFees" -> {JsNum(Num(-1))}
    [] f = "homeAppreciationRate" -> {JsNum(Num(21)), JsUndefined}
    [] f = "rentalIncome" -> {JsNum(Num(10)), JsNum(Num(-1))}
    [] f = "monthlyRent" -> {JsNum(Zero), JsUndefined}
    [] f = "rentIncreaseRate" -> {JsNum(Num(3)), JsNum(Num(21))}
    [] f = "investmentStartBalance" -> {JsNum(Num(30)), JsUndefined}
    [] f = "monthlyBudget" -> {JsNum(Num(80)), JsStr(<<"a", "b", "c">>)}
    [] f = "investmentReturn" -> {JsNum(Num(51)), JsNull}
    [] f = "timeHorizon" -> {JsNum(Q(1, 2)), JsNum(Q(11, 10)), JsUndefined}

HookChanged(p) == Cardinality({f \in Fields : p[f] # HookBaseParameters[f]})

\* the first render of App
InitHook ==
  /\ params = HookBaseParameters
  /\ result = NoResult
  /\ pc = "edit"
  /\ call = NoCall
  /\ hook = useCalculations(HookBaseParameters)
  /\ link = NoLink
  /\ stored = NothingStored

\* handleParameterChange(field, value) and the render that follows it
HandleParameterChange(field, value) ==
  /\ value # params[field]
  /\ HookChanged([params EXCEPT ![field] = value]) <= MaxChanged
  /\ params' = [params EXCEPT ![field] = value]
  /\ hook' = useCalculations(params')
  /\ UNCHANGED <<result, pc, call, link, stored>>

NextHook ==
  \E field \in Fields :
    \E value \in HookChoices(field) \cup {HookBaseParameters[field]} :
      HandleParameterChange(field, value)

SpecHook == InitHook /\ [][NextHook]_vars


\* ------------------------------------------------------------------------
\* Sharing a scenario: App starts from defaultParameters, the user changes
\* fields, a link is made from the record (by App's own useURLParams, which
\* leaves out the defaults, or by ScenarioManager's, which has none), and an
\* App opened on the link merges what it parses over defaultParameters.
\* ------------------------------------------------------------------------

\* the values a field is changed to before sharing
URLChoices(f) ==
  CASE f = "homePrice" -> {JsNum(Num(350000)), JsNum(Zero)}
    [] f = "downPayment" -> {JsNum(Q(25, 2))}
    [] f = "mortgageRate" -> {JsNum(Q(29, 4)), JsNum(Zero)}
    [] f = "loanTerm" -> {JsNum(Num(15))}
    [] f = "propertyTaxRate" -> {JsNum(Q(17, 20))}
    [] f = "homeInsurance" -> {JsNum(Num(1200))}
    [] f = "maintenanceCost" -> {JsNum(Zero)}
    [] f = "hoaFees" -> {JsNum(Num(150)), JsNull}
    [] f = "homeAppreciationRate" -> {JsNum(Num(-2)), JsNum(Q(7, 2))}
    [] f = "rentalIncome" -> {JsNum(Num(800))}
    [] f = "monthlyRent" -> {JsNum(Q(199999, 100))}
    [] f = "rentIncreaseRate" -> {JsNum(Zero)}
    [] f = "investmentStartBalance" -> {JsNum(Zero), JsNum(Num(250000))}
    [] f = "monthlyBudget" -> {JsNum(Num(4200)), JsNum(Q(7001, 2))}
    [] f = "investmentReturn" -> {JsNum(Q(-3, 2))}
    [] f = "timeHorizon" -> {JsNum(Num(5))}

URLChanged(p) == Cardinality({f \in Fields : p[f] # defaultParameters[f]})

\* App as it is first shown, on an address without a query
InitURL ==
  /\ params = defaultParameters
  /\ result = NoResult
  /\ pc = "edit"
  /\ call = NoCall
  /\ hook = NotRendered
  /\ link = NoLink
  /\ stored = NothingStored

\* handleParameterChange(field, value), before any link is made
ChangeBeforeSharing(field, value) ==
  /\ pc = "edit"
  /\ link = NoLink
  /\ value # params[field]
  /\ URLChanged([params EXCEPT ![field] = value]) <= MaxChanged
  /\ params' = [params EXCEPT ![field] = value]
  /\ UNCHANGED <<result, pc, call, hook, link, stored>>

\* App's effect on a change of parameters: updateURL(parameters) puts the
\* link of useURLParams(defaultParameters) into the address bar
UpdateURL ==
  /\ pc = "edit"
  /\ link = NoLink
  /\ link' = [from |-> params,
              search |-> generateShareURL(params, defaultParameters),
              by |-> "App"]
  /\ UNCHANGED <<params, result, pc, call, hook, stored>>

\* ScenarioManager's handleShareScenario: copyShareURL(parameters) of its own
\* useURLParams()
CopyShareURL ==
  /\ pc = "edit"
  /\ link = NoLink
  /\ link' = [from |-> params,
              search |-> generateShareURL(params, NoDefaults),
              by |-> "ScenarioManager"]
  /\ UNCHANGED <<params, result, pc, call, hook, stored>>

\* an App opened on the link: parseURLParams on mount, and the effect that
\* merges the parsed fields over the parameters it starts with
OpenLink ==
  /\ pc = "edit"
  /\ link # NoLink
  /\ params' = Merge(defaultParameters, parseURLParams(link.search))
  /\ pc' = "loaded"
  /\ UNCHANGED <<result, call, hook, link, stored>>

NextURL ==
  \/ \E field \in Fields :
       \E value \in URLChoices(field) \cup {defaultParameters[field]} :
         ChangeBeforeSharing(field, value)
  \/ UpdateURL
  \/ CopyShareURL
  \/ OpenLink

SpecURL == InitURL /\ [][NextURL]_vars


\* ------------------------------------------------------------------------
\* Saving scenarios: App holds the scenarios of
\* useLocalStorage('ownVsRentScenarios', []); scenarios are saved and
\* deleted through its handlers, a component may call the setter of the hook
\* with a list of its own, and a reload of the page mounts the hook again.
\* ------------------------------------------------------------------------

\* scenario ids are 1..MaxScenarioId
MaxScenarioId == 3

RECURSIVE ListsOf(_, _)
\* the lists of at most n distinct scenarios with ids from a set
ListsOf(ids, n) ==
  IF n = 0 THEN {<<>>}
  ELSE {<<>>} \cup
       UNION {{<<[id |-> i]>> \o rest : rest \in ListsOf(ids \ {i}, n - 1)} : i \in ids}

IdsOf(items) == {items[i].id : i \in 1..Len(items)}

InitStorage ==
  /\ params = defaultParameters
  /\ result = NoResult
  /\ pc = "edit"
  /\ call = NoCall
  /\ hook = NotRendered
  /\ link = NoLink
  /\ stored = NothingStored

\* the user saves a scenario; its id is a fresh one
SaveScenario(id) ==
  /\ id \notin IdsOf(stored.value.items)
  /\ stored' = handleSaveScenario(stored, id)
  /\ pc' = "stored"
  /\ UNCHANGED <<params, result, call, hook, link>>

\* the user deletes one of the scenarios shown
DeleteScenario(id) ==
  /\ id \in IdsOf(stored.value.items)
  /\ stored' = handleDeleteScenario(stored, id)
  /\ pc' = "stored"
  /\ UNCHANGED <<params, result, call, hook, link>>

\* a direct call of the setter the hook returns
SetStoredValue(newValue) ==
  /\ newValue # stored.value
  /\ stored' = setStoredValue(stored, newValue)
  /\ pc' = "stored"
  /\ UNCHANGED <<params, result, call, hook, link>>

\* the page is loaded again: the hook starts from the item of localStorage
Reload ==
  /\ pc = "stored"
  /\ stored' = Stored(InitialValue(stored.item), stored.item)
  /\ pc' = "edit"
  /\ UNCHANGED <<params, result, call, hook, link>>

NextStorage ==
  \/ \E id \in 1..MaxScenarioId : SaveScenario(id)
  \/ \E id \in 1..MaxScenarioId : DeleteScenario(id)
  \/ \E items \in ListsOf(1..MaxScenarioId, MaxScenarioId) : SetStoredValue(JsonArray(items))
  \/ Reload

SpecStorage == InitStorage /\ [][NextStorage]_vars


\* ------------------------------------------------------------------------
\* Properties
\* ------------------------------------------------------------------------
Returned == pc = "done" /\ result.threw = ""

NonNegativeFinite(x) == IsFinite(x) /\ Ge(x, Zero)

AllNonNegativeFinite(series) == \A i \in 1..Len(series) : NonNegativeFinite(series[i])

AllFieldsNumbers(p) == \A f \in Fields : p[f].t = "number" /\ IsFinite(p[f].num)

\* C1: for every parameter set validateParameters accepts, every element of
\* every series calculateScenario returns is finite and >= 0.
C1_ValidSeriesFiniteNonNegative ==
  (Returned /\ validateParameters(params).isValid) =>
    /\ AllNonNegativeFinite(result.ownScenario.netWorth)
    /\ AllNonNegativeFinite(result.ownScenario.homeEquity)
    /\ AllNonNegativeFinite(result.ownScenario.investments)
    /\ AllNonNegativeFinite(result.ownScenario.totalCosts)
    /\ AllNonNegativeFinite(result.ownScenario.monthlyPayments)
    /\ AllNonNegativeFinite(result.rentScenario.netWorth)
    /\ AllNonNegativeFinite(result.rentScenario.investments)
    /\ AllNonNegativeFinite(result.rentScenario.totalCosts)
    /\ AllNonNegativeFinite(result.rentScenario.monthlyPayments)
    /\ AllNonNegativeFinite(result.rentScenario.monthlyInvestment)

\* C2: calculateScenario returns a result and never throws for a parameter
\* record whose fields are all numbers, whatever their sign or fraction.
C2_NeverThrowsOnNumbers ==
  (pc = "done" /\ AllFieldsNumbers(params)) => result.threw = ""

\* the months 0..months whose own net worth (home equity plus own investments)
\* is strictly greater than the rent investments
CrossingMonths ==
  LET months == Mul(SafeParams(params).timeHorizon, Twelve)
  IN  {m \in 0..LastMonth(months) :
         Gt(Add(result.ownScenario.homeEquity[m + 1],
                result.ownScenario.investments[m + 1]),
            result.rentScenario.investments[m + 1])}

\* C3: breakEvenPoint is m/12 for the least month m of 0..months whose own net
\* worth (home equity + own investments) is strictly greater than the rent
\* investments, and null exactly when there is no such month; a break-even
\* point found is finite and lies between 0 and the horizon computed with
\* (months / 12).
C3_BreakEvenIsFirstStrictCrossing ==
  Returned =>
    /\ \A m \in 1..Len(result.ownScenario.netWorth) :
         result.ownScenario.netWorth[m] =
           Add(result.ownScenario.homeEquity[m], result.ownScenario.investments[m])
    /\ (CrossingMonths = {}) <=> (result.breakEvenPoint = JsNull)
    /\ \A m \in CrossingMonths :
         (\A k \in CrossingMonths : m <= k) =>
           result.breakEvenPoint = JsNum(Div(Num(m), Twelve))
    /\ result.breakEvenPoint # JsNull =>
         /\ result.breakEvenPoint.t = "number"
         /\ IsFinite(result.breakEvenPoint.num)
         /\ Ge(result.breakEvenPoint.num, Zero)
         /\ Le(result.breakEvenPoint.num, SafeParams(params).timeHorizon)

\* the two net worths are equal in month 0 and the own one is ahead in month
\* 1: break-even is reported at 1/12 of a year, not at 0
C3_Witness ==
  /\ Returned
  /\ Len(result.ownScenario.netWorth) >= 2
  /\ result.ownScenario.netWorth[1] = result.rentScenario.investments[1]
  /\ Gt(result.ownScenario.netWorth[2], result.rentScenario.investments[2])
  /\ result.breakEvenPoint = JsNum(Q(1, 12))

\* C4: calculateScenario called with timeHorizon = 0 returns series of exactly
\* one element (month 0 only) for both strategies.
C4_ZeroHorizonSingleElement ==
  (Returned /\ params.timeHorizon = JsNum(Zero)) =>
    /\ Len(result.ownScenario.netWorth) = 1
    /\ Len(result.rentScenario.netWorth) = 1

\* the default the claim C5 gives for a field
ClaimedDefault(f) == IF f \in {"loanTerm", "timeHorizon"} THEN Num(30) ELSE Zero

\* C5: normalization keeps every finite number the caller supplies (0
\* included), replaces only absent or non-numeric values by 30 (loanTerm,
\* timeHorizon) or 0 (every other field), and leaves every field finite.
C5_NormalizationIdentityOnNumbers ==
  pc = "done" =>
    \A f \in Fields :
      /\ (params[f].t = "number" /\ IsFinite(params[f].num)) =>
           SafeParams(params)[f] = params[f].num
      /\ (params[f].t = "undefined" \/ IsNaN(ToNumber(params[f]))) =>
           SafeParams(params)[f] = ClaimedDefault(f)
      /\ IsFinite(SafeParams(params)[f])

CalledMonthlyPayment == call.fn = "calculateMonthlyPayment"
CalledRemainingBalance == call.fn = "calculateRemainingBalance"
CalledHomeEquity == call.fn = "calculateHomeEquity"

\* the number passed as i-th argument of the call
Arg(i) == ToNumber(call.args[i])

\* C6: calculateMonthlyPayment returns exactly 0 whenever principal,
\* annualRate or termYears is negative, and whenever principal or termYears
\* is 0.
C6_ZeroOnNegativeOrZeroInput ==
  (/\ CalledMonthlyPayment
   /\ \/ Lt(Arg(1), Zero) \/ Lt(Arg(2), Zero) \/ Lt(Arg(3), Zero)
      \/ Arg(1) = Zero \/ Arg(3) = Zero)
  => call.ret = JsNum(Zero)

\* what C7 says of a call: the result is finite and >= 0; with principal <= 0,
\* termYears <= 0 or annualRate <= 0 it is 0 or principal / (termYears * 12);
\* with annualRate = 0, principal > 0 and termYears > 0 it is exactly
\* principal / (termYears * 12)
MonthlyPaymentContract ==
  LET straightLine == Div(Arg(1), Mul(Arg(3), Twelve))
  IN  /\ call.ret.t = "number"
      /\ NonNegativeFinite(call.ret.num)
      /\ (Le(Arg(1), Zero) \/ Le(Arg(3), Zero) \/ Le(Arg(2), Zero)) =>
           (call.ret.num = Zero \/ call.ret.num = straightLine)
      /\ (Arg(2) = Zero /\ Gt(Arg(1), Zero) /\ Gt(Arg(3), Zero)) =>
           call.ret.num = straightLine

\* C7: calculateMonthlyPayment returns a finite number >= 0 for all numeric
\* arguments: 0 or principal / (termYears * 12) when principal <= 0,
\* termYears <= 0 or annualRate <= 0, and exactly principal / (termYears * 12)
\* for annualRate = 0 with principal > 0 and termYears > 0.
C7_FiniteForAllNumbers == CalledMonthlyPayment => MonthlyPaymentContract

\* C8: for principal > 0, annualRate >= 0 and termYears > 0 the remaining
\* balance is non-increasing in monthsPaid over 0..termYears*12, equals the
\* principal at monthsPaid = 0 and is exactly 0 at monthsPaid = termYears*12.
C8_BalanceNonIncreasing ==
  (/\ CalledRemainingBalance
   /\ IsFinite(Arg(1)) /\ Gt(Arg(1), Zero)
   /\ Ge(Arg(2), Zero)
   /\ IsFinite(Arg(3)) /\ Gt(Arg(3), Zero)
   /\ IsInteger(Arg(4)) /\ Ge(Arg(4), Zero) /\ Le(Arg(4), Mul(Arg(3), Twelve)))
  => /\ call.ret.t = "number"
     /\ Lt(Arg(4), Mul(Arg(3), Twelve)) =>
          Ge(call.ret.num,
             ToNumber(calculateRemainingBalance(call.args[1], call.args[2], call.args[3],
                                                JsNum(Add(Arg(4), One)))))
     /\ Arg(4) = Zero => call.ret.num = Arg(1)
     /\ Arg(4) = Mul(Arg(3), Twelve) => call.ret.num = Zero

\* 1176 at 50% a year over three months: what is still owed after one payment
\* is less than the principal and more than nothing
C8_Witness ==
  /\ CalledRemainingBalance
  /\ Arg(1) = Num(1176)
  /\ Arg(2) = Num(50)
  /\ Arg(3) = Q(1, 4)
  /\ Arg(4) = One
  /\ Gt(call.ret.num, Zero)
  /\ Lt(call.ret.num, Arg(1))

\* C9: calculateRemainingBalance never returns a negative number; it returns
\* 0 whenever monthsPaid >= termYears*12, the principal whenever monthsPaid < 0
\* (principal > 0, termYears > 0), and for annualRate = 0 the linear
\* principal - (principal / (termYears*12)) * monthsPaid.
C9_BalanceNeverNegative ==
  CalledRemainingBalance =>
    /\ ~Lt(ToNumber(call.ret), Zero)
    /\ Ge(Arg(4), Mul(Arg(3), Twelve)) => call.ret = JsNum(Zero)
    /\ (Lt(Arg(4), Zero) /\ Gt(Arg(1), Zero) /\ Gt(Arg(3), Zero)) =>
         call.ret = call.args[1]
    /\ (/\ Arg(2) = Zero /\ IsFinite(Arg(1)) /\ Gt(Arg(1), Zero)
        /\ IsFinite(Arg(3)) /\ Gt(Arg(3), Zero)
        /\ Ge(Arg(4), Zero) /\ Lt(Arg(4), Mul(Arg(3), Twelve))) =>
         call.ret = JsNum(Sub(Arg(1), Mul(Div(Arg(1), Mul(Arg(3), Twelve)), Arg(4))))

\* C10: for every month m of 0..months the equity calculateHomeEquity returns
\* is >= 0 and <= initialPrice * (1 + appreciationRate/100)^(m/12), the home
\* value of that month.
C10_EquityWithinHomeValue ==
  CalledHomeEquity =>
    \A i \in 1..Len(call.ret) :
      /\ Ge(call.ret[i], Zero)
      /\ Le(call.ret[i],
            Mul(Arg(1), MathPow(Add(One, Div(Arg(2), Hundred)), Div(Num(i - 1), Twelve))))

\* the downPayment parameter is a number from 0 to 100
DownPaymentInRange ==
  /\ params.downPayment.t = "number"
  /\ Ge(params.downPayment.num, Zero)
  /\ Le(params.downPayment.num, Hundred)

\* what C11 says of a returned result: the first home equity is the down
\* payment amount and the series has months + 1 entries
FirstEquityIsDownPayment ==
  /\ Len(result.ownScenario.homeEquity) >= 1
  /\ result.ownScenario.homeEquity[1] = result.downPaymentAmount
  /\ Num(Len(result.ownScenario.homeEquity)) =
       Add(Mul(SafeParams(params).timeHorizon, Twelve), One)

\* C11: calculateScenario calls calculateHomeEquity with the loan principal
\* homePrice - downPaymentAmount, and for any downPayment of 0..100 the
\* returned homeEquity[0] equals downPaymentAmount, the series having
\* months + 1 entries.
C11_FirstEquityIsDownPayment ==
  (Returned /\ DownPaymentInRange) => FirstEquityIsDownPayment

CalledInvestmentGrowth == call.fn = "calculateInvestmentGrowth"

\* the number an argument counts for when non-numeric arguments count for 0
NumericOrZero(v) == IF IsNaN(ToNumber(v)) THEN Zero ELSE ToNumber(v)

\* series[m] = (series[m-1] + c) * (1 + rate/12/100) for every month m >= 1 of
\* the series: the contribution is added first, then the month's growth applied
GrowsMonthly(series, c, rate) ==
  \A i \in 2..Len(series) :
    series[i] = Mul(Add(series[i - 1], c), Add(One, Div(Div(rate, Twelve), Hundred)))

\* C12 as claimed: calculateInvestmentGrowth(principal, c, rate, months)
\* returns exactly months + 1 entries for months > 0, with series[0] =
\* principal and series[m] = (series[m-1] + c) * (1 + rate/12/100); for
\* months <= 0 it returns [principal]; non-numeric arguments count for 0.
C12_GrowthSeriesOfMonthsPlusOne ==
  CalledInvestmentGrowth =>
    LET principal == NumericOrZero(call.args[1])
        c == NumericOrZero(call.args[2])
        rate == NumericOrZero(call.args[3])
        months == NumericOrZero(call.args[4])
    IN  IF Le(months, Zero) THEN call.ret = <<principal>>
        ELSE /\ Num(Len(call.ret)) = Add(months, One)
             /\ call.ret[1] = principal
             /\ GrowsMonthly(call.ret, c, rate)

\* C12 as amended: the same with one entry for month 0 and one for each whole
\* month of 1..months, floor(months) + 1 entries in all.
C12_GrowthSeriesOfWholeMonths ==
  CalledInvestmentGrowth =>
    LET principal == NumericOrZero(call.args[1])
        c == NumericOrZero(call.args[2])
        rate == NumericOrZero(call.args[3])
        months == NumericOrZero(call.args[4])
    IN  IF Le(months, Zero) THEN call.ret = <<principal>>
        ELSE /\ Len(call.ret) = (months[1] \div months[2]) + 1
             /\ call.ret[1] = principal
             /\ GrowsMonthly(call.ret, c, rate)

\* 24 with 8 added a month at 1200% a year (100% a month): 64 after the first
\* month, and a month and a half of horizon gives two entries
C12_Witness ==
  /\ CalledInvestmentGrowth
  /\ call.args = <<JsNum(Num(24)), JsNum(Num(8)), JsNum(Num(1200)), JsNum(Q(3, 2))>>
  /\ call.ret = <<Num(24), Num(64)>>

CalledVariableGrowth == call.fn = "calculateInvestmentGrowthWithVariableContributions"

\* series[m] = (series[m-1] + k_m) * (1 + rate/12/100) for every month m >= 1
\* of the series, k_m being monthlyContributions[m-1] where that index exists
\* and holds a number, and 0 otherwise
GrowsByContributions(series, monthlyContributions, rate) ==
  \A i \in 2..Len(series) :
    LET k == IF i - 1 \in 1..Len(monthlyContributions)
             THEN NumericOrZero(monthlyContributions[i - 1])
             ELSE Zero
    IN  series[i] = Mul(Add(series[i - 1], k), Add(One, Div(Div(rate, Twelve), Hundred)))

\* C14 as claimed: calculateInvestmentGrowthWithVariableContributions returns
\* months + 1 entries with series[0] = principal and series[m] =
\* (series[m-1] + k_m) * (1 + rate/12/100), k_m = monthlyContributions[m-1] if
\* that index exists and holds a number, else 0; [principal] for months <= 0.
C14_VariableSeriesOfMonthsPlusOne ==
  CalledVariableGrowth =>
    LET principal == NumericOrZero(call.args[1])
        rate == NumericOrZero(call.args[3])
        months == NumericOrZero(call.args[4])
    IN  IF Le(months, Zero) THEN call.ret = <<principal>>
        ELSE /\ Num(Len(call.ret)) = Add(months, One)
             /\ call.ret[1] = principal
             /\ GrowsByContributions(call.ret, call.args[2], rate)

\* C14 as amended: the same with floor(months) + 1 entries.
C14_VariableSeriesOfWholeMonths ==
  CalledVariableGrowth =>
    LET principal == NumericOrZero(call.args[1])
        rate == NumericOrZero(call.args[3])
        months == NumericOrZero(call.args[4])
    IN  IF Le(months, Zero) THEN call.ret = <<principal>>
        ELSE /\ Len(call.ret) = (months[1] \div months[2]) + 1
             /\ call.ret[1] = principal
             /\ GrowsByContributions(call.ret, call.args[2], rate)

\* 24 at no return with the contributions 8, "abc", -16, 4 over MaxMonths
\* months: 32 after the first month, and the same 32 after the second, whose
\* contribution is not a number
C14_Witness ==
  /\ CalledVariableGrowth
  /\ call.args[1] = JsNum(Num(24))
  /\ Len(call.args[2]) = 4
  /\ call.args[3] = JsNum(Zero)
  /\ call.args[4] = JsNum(Num(MaxMonths))
  /\ Len(call.ret) = MaxMonths + 1
  /\ call.ret[2] = Num(32)
  /\ call.ret[3] = Num(32)

\* C15: ownScenario.monthlyInvestment = max(0, monthlyBudget -
\* monthlyHousingCost + rentalIncome), from the gross housing cost and not the
\* effective one; ownStartingInvestmentBalance = max(0, investmentStartBalance
\* - downPaymentAmount) with downPaymentAmount = (downPayment/100) * homePrice;
\* both are >= 0 and ownScenario.investments[0] = ownStartingInvestmentBalance.
C15_OwnInvestmentFromGrossCost ==
  Returned =>
    LET safe == SafeParams(params)
    IN  /\ result.downPaymentAmount = Mul(Div(safe.downPayment, Hundred), safe.homePrice)
        /\ result.ownScenario.monthlyInvestment =
             MathMax(Zero, Add(Sub(safe.monthlyBudget, result.monthlyHousingCost),
                               safe.rentalIncome))
        /\ result.ownStartingInvestmentBalance =
             MathMax(Zero, Sub(safe.investmentStartBalance, result.downPaymentAmount))
        /\ Ge(result.ownScenario.monthlyInvestment, Zero)
        /\ Ge(result.ownStartingInvestmentBalance, Zero)
        /\ Len(result.ownScenario.investments) >= 1
        /\ result.ownScenario.investments[1] = result.ownStartingInvestmentBalance

\* a rental income of 100 against a housing cost of 24 and a budget of 40: the
\* effective cost is 0 and 40 - 24 + 100 = 116 is invested each month; the
\* down payment of 24 uses up the starting balance of 24
C15_Witness ==
  /\ Returned
  /\ params.rentalIncome = JsNum(Num(100))
  /\ result.monthlyHousingCost = Num(24)
  /\ result.effectiveMonthlyHousingCost = Zero
  /\ result.ownScenario.monthlyInvestment = Num(116)
  /\ result.downPaymentAmount = Num(24)
  /\ result.ownStartingInvestmentBalance = Zero
  /\ result.ownScenario.investments[1] = Zero

\* C16: effectiveMonthlyHousingCost = max(0, monthlyHousingCost -
\* rentalIncome) is never negative, ownScenario.totalCosts[0] = 0 and
\* totalCosts[m] = m * effectiveMonthlyHousingCost for every m of 1..months
\* (so the series is non-decreasing).
C16_OwnCostsAccumulateEffectiveCost ==
  Returned =>
    LET safe == SafeParams(params)
        months == Mul(safe.timeHorizon, Twelve)
        totalCosts == result.ownScenario.totalCosts
    IN  /\ result.effectiveMonthlyHousingCost =
             MathMax(Zero, Sub(result.monthlyHousingCost, safe.rentalIncome))
        /\ Ge(result.effectiveMonthlyHousingCost, Zero)
        /\ Len(totalCosts) >= 1
        /\ totalCosts[1] = Zero
        /\ \A m \in 1..LastMonth(months) :
             /\ m + 1 <= Len(totalCosts)
             /\ totalCosts[m + 1] = Mul(Num(m), result.effectiveMonthlyHousingCost)
             /\ Ge(totalCosts[m + 1], totalCosts[m])

\* C17: rentScenario.totalCosts[0] = 0 and for every month m of 1..months
\* totalCosts[m] - totalCosts[m-1] is that month's rent,
\* rentScenario.monthlyPayments[m] = monthlyRent * (1 + rentIncreaseRate/100)^(m/12).
C17_RentCostsAccumulateMonthsRent ==
  Returned =>
    LET safe == SafeParams(params)
        months == Mul(safe.timeHorizon, Twelve)
        totalCosts == result.rentScenario.totalCosts
        monthlyPayments == result.rentScenario.monthlyPayments
    IN  /\ Len(totalCosts) >= 1
        /\ totalCosts[1] = Zero
        /\ \A m \in 1..LastMonth(months) :
             /\ m + 1 <= Len(totalCosts)
             /\ m + 1 <= Len(monthlyPayments)
             /\ Sub(totalCosts[m + 1], totalCosts[m]) = monthlyPayments[m + 1]
             /\ monthlyPayments[m + 1] =
                  Mul(safe.monthlyRent,
                      MathPow(Add(One, Div(safe.rentIncreaseRate, Hundred)),
                              Div(Num(m), Twelve)))

\* C18: rentScenario.monthlyInvestment[m] = max(0, monthlyBudget -
\* rentCosts[m]) for every m of 0..months, is never negative and is
\* non-increasing in m whenever rentIncreaseRate >= 0; the rent scenario
\* invests the full starting balance, rentScenario.investments[0] =
\* investmentStartBalance.
C18_RentInvestmentIsBudgetLessRent ==
  Returned =>
    LET safe == SafeParams(params)
        rentCosts == result.rentScenario.monthlyPayments
        monthlyInvestment == result.rentScenario.monthlyInvestment
    IN  /\ Len(monthlyInvestment) = Len(rentCosts)
        /\ \A i \in 1..Len(monthlyInvestment) :
             /\ monthlyInvestment[i] = MathMax(Zero, Sub(safe.monthlyBudget, rentCosts[i]))
             /\ Ge(monthlyInvestment[i], Zero)
        /\ Ge(safe.rentIncreaseRate, Zero) =>
             \A i \in 2..Len(monthlyInvestment) :
               Le(monthlyInvestment[i], monthlyInvestment[i - 1])
        /\ Len(result.rentScenario.investments) >= 1
        /\ result.rentScenario.investments[1] = safe.investmentStartBalance

OutsideDocumentedRange(p, f) ==
  LET x == ToNumber(p[f])
      Outside(lo, hi) == Lt(x, lo) \/ Gt(x, hi)
  IN  CASE f = "homePrice" -> ~ToBoolean(p[f]) \/ Le(x, Zero)
        [] f = "downPayment" -> Outside(Zero, Hundred)
        [] f = "mortgageRate" -> Outside(Zero, Num(50))
        [] f = "loanTerm" -> ~ToBoolean(p[f]) \/ Outside(One, Num(50))
        [] f = "propertyTaxRate" -> Outside(Zero, Num(10))
        [] f = "monthlyRent" -> ~ToBoolean(p[f]) \/ Le(x, Zero)
        [] f = "rentIncreaseRate" -> Outside(Zero, Num(20))
        [] f = "investmentReturn" -> Outside(Num(-50), Num(50))
        [] f = "timeHorizon" -> ~ToBoolean(p[f]) \/ Outside(One, Num(50))
        [] OTHER -> FALSE

\* C20: the errors map of validateParameters has key f exactly when field f
\* is outside its documented range (homePrice and monthlyRent absent or <= 0,
\* downPayment outside 0..100, mortgageRate outside 0..50, loanTerm and
\* timeHorizon outside 1..50 years, propertyTaxRate outside 0..10,
\* rentIncreaseRate outside 0..20, investmentReturn outside -50..50), and
\* isValid is true exactly when the map is empty.
C20_ErrorsExactlyOutsideRange ==
  /\ validateParameters(params).errors =
       {f \in Fields : OutsideDocumentedRange(params, f)}
  /\ validateParameters(params).isValid <=> (validateParameters(params).errors = {})

CalledRentalCosts == call.fn = "calculateRentalCosts"

\* every argument of the call is a number
ArgsAreNumbers == \A i \in 1..Len(call.args) : call.args[i].t = "number"

\* C25: calculateRentalCosts(initialRent, rate, months) returns months + 1
\* entries with rent[0] = initialRent and rent[m] = initialRent *
\* (1 + rate/100)^(m/12); the series is constant when rate = 0, all zeros when
\* initialRent = 0, and non-decreasing when rate >= 0.
C25_RentSeriesCompounds ==
  (CalledRentalCosts /\ ArgsAreNumbers) =>
    /\ Num(Len(call.ret)) = Add(Arg(3), One)
    /\ Len(call.ret) >= 1
    /\ call.ret[1] = Arg(1)
    /\ \A i \in 1..Len(call.ret) :
         /\ call.ret[i] =
              Mul(Arg(1), MathPow(Add(One, Div(Arg(2), Hundred)), Div(Num(i - 1), Twelve)))
         /\ Arg(2) = Zero => call.ret[i] = Arg(1)
         /\ Arg(1) = Zero => call.ret[i] = Zero
    /\ Ge(Arg(2), Zero) => \A i \in 2..Len(call.ret) : Ge(call.ret[i], call.ret[i - 1])

\* the values returned by the call, as a sequence of numbers
ReturnedNumbers ==
  IF CalledMonthlyPayment \/ CalledRemainingBalance
    THEN <<ToNumber(call.ret)>>
    ELSE call.ret

\* some argument of the call is not a number (for the variable-contribution
\* growth: the principal, the rate, the months or an entry of the array)
SomeArgumentNotNumeric ==
  IF CalledVariableGrowth
    THEN \/ \E i \in {1, 3, 4} : call.args[i].t # "number"
         \/ \E k \in 1..Len(call.args[2]) : call.args[2][k].t # "number"
    ELSE \E i \in 1..Len(call.args) : call.args[i].t # "number"

\* C24: each sub-calculation called directly (calculateMonthlyPayment,
\* calculateRemainingBalance, calculateInvestmentGrowth,
\* calculateInvestmentGrowthWithVariableContributions, calculateHomeEquity,
\* calculateRentalCosts) with an argument that is missing or not a number
\* coerces it to a safe default and returns finite values only.
C24_SubCalculationsTolerateNonNumbers ==
  (call # NoCall /\ SomeArgumentNotNumeric) =>
    \A i \in 1..Len(ReturnedNumbers) : IsFinite(ReturnedNumbers[i])

\* the array lengths of at least months entries, for the months of the call
\* (months that are not a number ask for no entry)
AtLeastMonths == {n \in 0..(MaxMonths + 1) : ~Lt(Num(n), Arg(4))}

\* C27: calculateInvestmentGrowth(principal, c, rate, months) returns exactly
\* the series that calculateInvestmentGrowthWithVariableContributions returns
\* for the same principal, rate and months and an array of at least months
\* entries all equal to c.
C27_ConstantContributionsAgree ==
  CalledInvestmentGrowth =>
    \A n \in AtLeastMonths :
      calculateInvestmentGrowthWithVariableContributions(
        call.args[1], [k \in 1..n |-> call.args[2]] \o <<>>, call.args[3],
        call.args[4]) = call.ret

\* a call over MaxMonths months with a contribution of 8 a month and a return
\* of 100 % a month: (24 + 8) * 2 = 64, (64 + 8) * 2 = 144, ...
C27_Witness ==
  /\ CalledInvestmentGrowth
  /\ call.args = <<JsNum(Num(24)), JsNum(Num(8)), JsNum(Num(1200)), JsNum(Num(MaxMonths))>>
  /\ Len(call.ret) = MaxMonths + 1
  /\ call.ret[2] = Num(64)
  /\ call.ret[3] = Num(144)
  /\ AtLeastMonths = {MaxMonths, MaxMonths + 1}

AllFinite(series) == \A i \in 1..Len(series) : IsFinite(series[i])

\* the record has a home price of 0 and validateParameters objects to nothing
\* else in it
ZeroHomePriceOtherwiseValid ==
  /\ params.homePrice = JsNum(Zero)
  /\ validateParameters(params).errors \subseteq {"homePrice"}

\* C26: with homePrice = 0 and every other parameter valid, calculateScenario
\* divides by nothing that is zero: downPaymentAmount = 0,
\* monthlyMortgagePayment = 0, every entry of ownScenario.homeEquity is 0 and
\* every entry of both net worth series is finite.
C26_ZeroHomePriceIsFinite ==
  (pc = "done" /\ ZeroHomePriceOtherwiseValid) =>
    /\ result.threw = ""
    /\ result.downPaymentAmount = Zero
    /\ result.monthlyMortgagePayment = Zero
    /\ \A i \in 1..Len(result.ownScenario.homeEquity) :
         result.ownScenario.homeEquity[i] = Zero
    /\ AllFinite(result.ownScenario.netWorth)
    /\ AllFinite(result.rentScenario.netWorth)

\* the rent added to rentScenario.totalCosts in month m
RentAdded(m) ==
  Sub(result.rentScenario.totalCosts[m + 1], result.rentScenario.totalCosts[m])

\* the contribution added to rentScenario.investments in month m, before the
\* month's growth: investments[m] = (investments[m - 1] + contribution) *
\* (1 + monthlyRate)
ContributionAdded(m) ==
  LET monthlyRate == Div(Div(SafeParams(params).investmentReturn, Twelve), Hundred)
  IN  Sub(Div(result.rentScenario.investments[m + 1], Add(One, monthlyRate)),
          result.rentScenario.investments[m])

\* C28: in every month m of 1..months whose rent is within the budget, the
\* rent added to rentScenario.totalCosts in month m and the contribution added
\* to rentScenario.investments in month m (before growth) add up to
\* monthlyBudget: both series take the same month's rent.
C28_RentScenarioSpendsBudget ==
  Returned =>
    \A m \in 1..LastMonth(Mul(SafeParams(params).timeHorizon, Twelve)) :
      Le(RentAdded(m), SafeParams(params).monthlyBudget) =>
        Add(RentAdded(m), ContributionAdded(m)) = SafeParams(params).monthlyBudget

\* rent doubling every month from 24 against a budget of 80: month 1 adds a
\* rent of 24 and a contribution of 56, month 2 a rent of 48 and a
\* contribution of 32, and the rent of month 3 (96) is beyond the budget
C28_Witness ==
  /\ Returned
  /\ params.rentIncreaseRate = JsNum(Num(409500))
  /\ params.monthlyBudget = JsNum(Num(80))
  /\ result.rentScenario.totalCosts = <<Zero, Num(24), Num(72), Num(168)>>
  /\ result.rentScenario.investments = <<Num(24), Num(80), Num(112), Num(112)>>
  /\ RentAdded(2) = Num(48)
  /\ ContributionAdded(2) = Num(32)

\* the rental incomes below the one of the record, among those a caller sets
LowerRentalIncomes ==
  {r \in {JsNum(Zero), JsNum(Num(10))} : Lt(r.num, ToNumber(params.rentalIncome))}

\* calculateScenario on the record with rental income r in place of its own
WithRentalIncome(r) == calculateScenario([params EXCEPT !.rentalIncome = r])

\* series a is at least series b, month by month
SeriesGe(a, b) == Len(a) = Len(b) /\ \A i \in 1..Len(a) : Ge(a[i], b[i])

\* own net worth under the record against own net worth under the lower
\* rental income r
RentalIncomeImproves(low) ==
  LET safe == SafeParams(params)
      months == Mul(safe.timeHorizon, Twelve)
      last == Len(result.ownScenario.netWorth)
  IN  /\ low.threw = ""
      /\ SeriesGe(result.ownScenario.netWorth, low.ownScenario.netWorth)
      /\ (/\ Ge(safe.investmentReturn, Zero)
          /\ Ge(months, One)
          /\ Gt(Add(Sub(safe.monthlyBudget, result.monthlyHousingCost),
                    safe.rentalIncome), Zero))
           => /\ last >= 1
              /\ Gt(result.ownScenario.netWorth[last], low.ownScenario.netWorth[last])
      /\ result.rentScenario = low.rentScenario

\* C23: of two parameter records validateParameters accepts that differ in
\* rentalIncome only (r1 < r2, both >= 0), the one with r2 has an own net worth
\* at least that of the other in every month, strictly greater in the final
\* month when investmentReturn >= 0, months >= 1 and monthlyBudget -
\* monthlyHousingCost + r2 > 0, and every rent-scenario series is the same.
C23_RentalIncomeImprovesOwning ==
  (Returned /\ validateParameters(params).isValid) =>
    \A r \in LowerRentalIncomes : RentalIncomeImproves(WithRentalIncome(r))

\* a required parameter of the record is undefined or null, or the hook's
\* validateParameters reports an error
MissingOrInvalid ==
  \/ \E i \in 1..Len(requiredParams) : params[requiredParams[i]].t \in {"undefined", "null"}
  \/ ~HookValidateParameters(params).isValid

\* C21: useCalculations withholds every result on failure: when a required
\* parameter is undefined or null, or the hook's validation reports an error,
\* it returns isValid = false, one non-empty error message, results with
\* ownScenario, rentScenario and breakEvenPoint null, summary null and
\* chartData null; in every other case error is undefined, isValid is true and
\* results is the value of calculateScenario(parameters).
C21_ResultsWithheldOnFailure ==
  IF MissingOrInvalid
    THEN /\ hook.isValid = FALSE
         /\ hook.error.t = "string"
         /\ hook.error.str # <<>>
         /\ hook.results.ownScenario = JsNull
         /\ hook.results.rentScenario = JsNull
         /\ hook.results.breakEvenPoint = JsNull
         /\ hook.summary = JsNull
         /\ hook.chartData = JsNull
    ELSE /\ hook.error = JsUndefined
         /\ hook.isValid = TRUE
         /\ hook.results = [error |-> JsUndefined] @@ calculateScenario(params)

\* the net worth of the two scenarios at the final month of the results
OwnFinalNetWorth ==
  hook.results.ownScenario.netWorth[Len(hook.results.ownScenario.netWorth)]
RentFinalNetWorth ==
  hook.results.rentScenario.netWorth[Len(hook.results.rentScenario.netWorth)]

\* C29: in the summary of useCalculations the recommendation is 'own' exactly
\* when the own net worth at the final month is strictly greater than the rent
\* net worth at the final month (a tie gives 'rent'), and whenever the
\* recommendation is 'own' the break-even point reported is not null.
C29_RecommendationFollowsFinalNetWorth ==
  hook.isValid =>
    /\ hook.summary.recommendation \in {"own", "rent"}
    /\ hook.summary.recommendation = "own" <=> Gt(OwnFinalNetWorth, RentFinalNetWorth)
    /\ OwnFinalNetWorth = RentFinalNetWorth => hook.summary.recommendation = "rent"
    /\ hook.summary.recommendation = "own" =>
         /\ hook.summary.breakEvenPoint # JsNull
         /\ hook.summary.breakEvenPoint = hook.results.breakEvenPoint

\* the budget raised to 80: owning ends the year at 103 of equity and 900
\* invested against 712 for renting, ahead from the first month on
C29_Witness ==
  /\ hook.isValid
  /\ params = [HookBaseParameters EXCEPT !.monthlyBudget = JsNum(Num(80))]
  /\ OwnFinalNetWorth = Num(1003)
  /\ RentFinalNetWorth = Num(712)
  /\ hook.summary.recommendation = "own"
  /\ hook.summary.breakEvenPoint = JsNum(Q(1, 12))

\* the record a link was made from holds a finite number in every field
SharedFiniteNumbers ==
  \A f \in Fields : link.from[f].t = "number" /\ IsFinite(link.from[f].num)

\* C22: for every parameter record with finite numeric values, the record an
\* App gets by parsing the query string generateShareURL made of it and
\* merging the parsed fields over the default parameters equals the original
\* in every field calculateScenario reads, for the link of App (defaults
\* left out) and for the link of ScenarioManager (no defaults)
C22_URLCodecRoundTrips ==
  (pc = "loaded" /\ SharedFiniteNumbers) =>
    \A f \in Fields : f \in DOMAIN params /\ params[f] = link.from[f]

\* the item under the hook's key decodes to the value held in React state
Persisted ==
  /\ ToBoolean(stored.item)
  /\ JSONParse(stored.item.str).threw = ""
  /\ JSONParse(stored.item.str).value = stored.value

\* C30: after any sequence of setStoredValue calls, including calls in which
\* localStorage.setItem throws, the value held in React state equals the
\* JSON-decoded value stored in localStorage under the hook's key
C30_StateEqualsPersistedValue == pc = "stored" => Persisted


====
